---- MODULE Spec2Model ----
(***************************************************************************)
(* CKB backend of the forcerelay relayer.                                  *)
(*                                                                         *)
(*   crates/relayer/src/chain/ckb/assembler.rs : TxAssembler, the multi-   *)
(*       client ring buffer of light-client cells (fetch_update_cells,     *)
(*       assemble_create_multi_client_transaction,                         *)
(*       assemble_update_multi_client_transaction).                        *)
(*   crates/relayer/src/chain/ckb4ibc.rs : Ckb4IbcChain, its caches and    *)
(*       send_messages_and_wait_commit.                                    *)
(***************************************************************************)
EXTENDS Integers, Sequences, FiniteSets, TLC

(***************************************************************************)
(* Bounds of the model.                                                    *)
(***************************************************************************)
\* Largest cells_count (ClientTypeArgs.cells_count) of a group.
MaxCellsCount == 3
\* Transactions the ledger commits in one behaviour of Spec.
MaxTxs == 3

\* Slot numbers stored in a payload's first byte: every slot of the largest
\* group, and one number outside every group's range.
Ids == 0 .. (MaxCellsCount - 1)

(***************************************************************************)
(* Options (Option<T>) are sequences of length at most one.                *)
(***************************************************************************)
None == << >>

Some(x) == << x >>

\* Option::replace: the option afterwards, and the value returned (the old one).
OptionReplace(opt, x) == [now |-> Some(x), prev |-> opt]

(***************************************************************************)
(* Payloads.  A cell's output_data is kept as what the code reads of it:   *)
(* the verdict of the two molecule validators (PackedClientReader::verify  *)
(* and PackedClientInfoReader::verify), its first byte (Client.id and      *)
(* ClientInfo.last_id are both the first field of their struct) and the    *)
(* rest of the record (the header snapshot).                               *)
(***************************************************************************)
PackedClient(id, hdr) == [vc |-> TRUE, vi |-> FALSE, b0 |-> id, hdr |-> hdr]

PackedClientInfo(last_id) == [vc |-> FALSE, vi |-> TRUE, b0 |-> last_id, hdr |-> 0]

\* Bytes neither validator accepts.
InvalidData == [vc |-> FALSE, vi |-> FALSE, b0 |-> 0, hdr |-> 0]

PackedClientReader_verify(data) == data.vc

PackedClientInfoReader_verify(data) == data.vi

\* u8::from(client.id().as_reader()) / u8::from(client_info.last_id().as_reader())
FirstByte(data) == data.b0

\* PackedClientInfo::as_builder().last_id(..).build(): the record with its
\* first field replaced.
WithLastId(data, last_id) == [data EXCEPT !.b0 = last_id]

(***************************************************************************)
(* Scripts (the predicates of the spec).                                   *)
(***************************************************************************)
NoScript == [code_hash |-> << "none" >>, hash_type |-> "none", args |-> << >>]

make_typeid_script(type_args) ==
    [code_hash |-> << "TYPE_ID_CODE_HASH" >>, hash_type |-> "type", args |-> type_args]

make_lightclient_script(script_typehash, args) ==
    [code_hash |-> script_typehash, hash_type |-> "type", args |-> args]

\* Script::calc_script_hash: a collision-free hash, kept as the tagged script.
calc_script_hash(script) == << "hash", script.code_hash, script.args >>

\* ClientTypeArgs::as_slice: the cells_count byte followed by the type id.
ClientTypeArgsSlice(a) == << a.cells_count, a.type_id >>

\* The type id of a group nobody has created.
FreshTypeId == << "none" >>

\* The H256 type-id args of the light-client contract and of its lock.
ContractTypeIdArgs == << "contract" >>

LockTypeIdArgs == << "lock" >>

\* The type script shared by the cells of a group: assembler.rs 308-316 builds
\* it for the outputs, and the search of 77-83 is keyed by the same hash and args.
GroupTypeScript(contract_typeid_args, client_type_args) ==
    make_lightclient_script(
        calc_script_hash(make_typeid_script(contract_typeid_args)),
        ClientTypeArgsSlice(client_type_args))

(***************************************************************************)
(* State.                                                                  *)
(***************************************************************************)
VARIABLES
    live,       \* the ledger: the live cells, in the order a search returns them
    ntx,        \* transactions committed so far (names the next transaction)
    committed,  \* the ledger: the light-client transactions committed so far,
                \* oldest first, each with the live cells it found
    fetched,    \* the relayer's last call, if fetch_update_cells: arguments and result
    call,       \* the relayer's last call, if an assembler: its arguments
    draft,      \* ... and its result: the draft handed to completion, and the outcome
    ibc,                  \* the ledger: the live connection, channel and packet cells
    channel_input_data,   \* Ckb4IbcChain: (ChannelId, PortId) -> CellInput
    channel_cache,        \* Ckb4IbcChain: ChannelId -> IbcChannel
    connection_cache,     \* Ckb4IbcChain: Option<(IbcConnections, CellInput)>
    packet_input_data,    \* Ckb4IbcChain: (ChannelId, PortId, Sequence) -> CellInput
    answer,               \* the endpoint's last call, if a query: its outcome
    sent                  \* the endpoint's last call, if send_messages_and_wait_commit:
                          \* its outcome

lcvars == << live, committed, fetched, call, draft >>

chainvars == << ibc, channel_input_data, channel_cache, connection_cache,
                packet_input_data, answer, sent >>

vars == << live, ntx, committed, fetched, call, draft, ibc, channel_input_data, channel_cache,
           connection_cache, packet_input_data, answer, sent >>

LiveCell(out_point, lock, type, data) ==
    [out_point |-> out_point, lock |-> lock, type |-> type, data |-> data]

Range(s) == { s[i] : i \in 1 .. Len(s) }

SeqsUpTo(S, n) == UNION { [1 .. k -> S] : k \in 0 .. n }

\* SelectSeq with a two-argument test.
RECURSIVE Filter(_, _, _)
Filter(s, type, i) ==
    IF i > Len(s) THEN << >>
    ELSE IF s[i].type = type THEN << s[i] >> \o Filter(s, type, i + 1)
    ELSE Filter(s, type, i + 1)

Min(a, b) == IF a < b THEN a ELSE b

\* CellSearcher::search_cells_by_typescript(type_hash, args, limit): the live
\* cells whose type script is {code_hash: type_hash, hash_type: type, args},
\* at most limit of them.
search_cells_by_typescript(type_hash, args, limit) ==
    LET found == Filter(live, make_lightclient_script(type_hash, args), 1)
    IN  SubSeq(found, 1, Min(limit, Len(found)))

(***************************************************************************)
(* fetch_update_cells (assembler.rs 72-146).                               *)
(***************************************************************************)
NoCell == LiveCell(<< 0, 0 >>, NoScript, NoScript, InvalidData)

OkNone == [tag |-> "OkNone", panic |-> "", oldest |-> NoCell, latest |-> NoCell,
           info |-> NoCell, first |-> InvalidData, second |-> InvalidData]

OkSome(oldest, latest, info) == [OkNone EXCEPT !.tag = "OkSome", !.oldest = oldest,
                                               !.latest = latest, !.info = info]

Err(what) == [OkNone EXCEPT !.tag = "Err", !.panic = what]

Panic(what) == [OkNone EXCEPT !.tag = "Panic", !.panic = what]

\* Faulty variant: the diagnostic prints the later record twice.
PanicTwoInfoLaterTwice(first, second) ==
    [OkNone EXCEPT !.tag = "Panic", !.panic = "more than one client info",
                   !.first = second, !.second = second]

\* The panic of lines 105-109, which prints both ClientInfo records.
PanicTwoInfo(first, second) ==
    [OkNone EXCEPT !.tag = "Panic", !.panic = "more than one client info",
                   !.first = first, !.second = second]

\* Faulty variant: the ClientInfo validator is tried first.
RECURSIVE ClassifyCellsInfoFirst(_, _, _, _)
ClassifyCellsInfoFirst(cells, i, client_cells, client_info_cell_opt) ==
    IF i > Len(cells)
    THEN [panic |-> OkNone, client_cells |-> client_cells, info |-> client_info_cell_opt]
    ELSE LET cell == cells[i] IN
         IF PackedClientInfoReader_verify(cell.data)
         THEN LET r == OptionReplace(client_info_cell_opt, cell) IN
              IF r.prev # None
              THEN [panic |-> [OkNone EXCEPT !.tag = "Panic",
                                             !.panic = "more than one client info",
                                             !.first = r.prev[1].data,
                                             !.second = cell.data],
                    client_cells |-> client_cells, info |-> r.now]
              ELSE ClassifyCellsInfoFirst(cells, i + 1, client_cells, r.now)
         ELSE IF PackedClientReader_verify(cell.data)
         THEN ClassifyCellsInfoFirst(cells, i + 1, Append(client_cells, cell),
                                     client_info_cell_opt)
         ELSE [panic |-> Panic("invalid data"),
               client_cells |-> client_cells, info |-> client_info_cell_opt]

\* Lines 97-114: the cells sorted into Client cells and the ClientInfo cell.
RECURSIVE ClassifyCells(_, _, _, _)
ClassifyCells(cells, i, client_cells, client_info_cell_opt) ==
    IF i > Len(cells)
    THEN [panic |-> OkNone, client_cells |-> client_cells, info |-> client_info_cell_opt]
    ELSE LET cell == cells[i] IN
         IF PackedClientReader_verify(cell.data)
         THEN ClassifyCells(cells, i + 1, Append(client_cells, cell), client_info_cell_opt)
         ELSE IF PackedClientInfoReader_verify(cell.data)
         THEN LET r == OptionReplace(client_info_cell_opt, cell) IN
              IF r.prev # None
              THEN [panic |-> PanicTwoInfo(r.prev[1].data, cell.data),
                    client_cells |-> client_cells, info |-> r.now]
              ELSE ClassifyCells(cells, i + 1, client_cells, r.now)
         ELSE [panic |-> Panic("invalid data"),
               client_cells |-> client_cells, info |-> client_info_cell_opt]

\* Faulty variant: the value Option::replace returns is dropped.
ExpectPreviousDropped(prev) == TRUE

\* Option::expect of the value Option::replace returns (lines 131 and 133):
\* it panics when the option held nothing before.
ExpectPrevious(prev) == prev # None

\* Faulty variant: the first and the last Client cell are taken for the oldest
\* and the latest, whatever their ids.
ScanClientsByPosition(client_cells, i, latest_id, oldest_id, oldest, latest) ==
    [panic |-> OkNone,
     oldest |-> IF client_cells = << >> THEN None ELSE Some(client_cells[1]),
     latest |-> IF client_cells = << >> THEN None
                ELSE Some(client_cells[Len(client_cells)])]

\* Lines 127-135: the scan for the latest and the oldest Client cell.
RECURSIVE ScanClients(_, _, _, _, _, _)
ScanClients(client_cells, i, latest_id, oldest_id, oldest, latest) ==
    IF i > Len(client_cells)
    THEN [panic |-> OkNone, oldest |-> oldest, latest |-> latest]
    ELSE LET cell == client_cells[i]
             client_id == FirstByte(cell.data)
         IN  IF client_id = latest_id
             THEN LET r == OptionReplace(latest, cell) IN
                  IF ExpectPrevious(r.prev)
                  THEN ScanClients(client_cells, i + 1, latest_id, oldest_id, oldest, r.now)
                  ELSE [panic |-> Panic("on-chain data corrupted"),
                        oldest |-> oldest, latest |-> r.now]
             ELSE IF client_id = oldest_id
             THEN LET r == OptionReplace(oldest, cell) IN
                  IF ExpectPrevious(r.prev)
                  THEN ScanClients(client_cells, i + 1, latest_id, oldest_id, r.now, latest)
                  ELSE [panic |-> Panic("on-chain data corrupted"),
                        oldest |-> r.now, latest |-> latest]
             ELSE ScanClients(client_cells, i + 1, latest_id, oldest_id, oldest, latest)

\* Line 122 on u8: (latest_id + 1) % (cells_count - 1).  The group sizes and
\* slot numbers of the model stay below 255, so the sum does not overflow.
OldestId(latest_id, cells_count) == (latest_id + 1) % (cells_count - 1)

\* Faulty variant: the count is compared before the empty result is looked at.
CountCheckMismatchFirst(len, cells_count) ==
    IF len # cells_count THEN "panic"
    ELSE IF len = 0 THEN "none"
    ELSE "go on"

\* Faulty variant: a result that is short of cells_count is reported as not found.
CountCheckShortIsNone(len, cells_count) ==
    IF len < cells_count THEN "none"
    ELSE IF len # cells_count THEN "panic"
    ELSE "go on"

\* Faulty variant: a result of one cell is taken for an absent group.
CountCheckOneIsNone(len, cells_count) ==
    IF len <= 1 THEN "none"
    ELSE IF len # cells_count THEN "panic"
    ELSE "go on"

\* Lines 87-95: what the length of the search result decides.
CountCheck(len, cells_count) ==
    IF len = 0 THEN "none"
    ELSE IF len # cells_count THEN "panic"
    ELSE "go on"

fetch_update_cells(contract_typeid_args, client_type_args, rpc_ok) ==
    LET type_hash == calc_script_hash(make_typeid_script(contract_typeid_args))
        cells_count == client_type_args.cells_count
        cells == search_cells_by_typescript(
                     type_hash, ClientTypeArgsSlice(client_type_args), cells_count)
        check == CountCheck(Len(cells), cells_count)
    IN  IF ~rpc_ok THEN Err("search failed")
        ELSE IF check = "none" THEN OkNone
        ELSE IF check = "panic" THEN Panic("fetched client cells count not match")
        ELSE LET cl == ClassifyCells(cells, 1, << >>, None) IN
             IF cl.panic.tag = "Panic" THEN cl.panic
             ELSE IF cl.info = None THEN Panic("client info cell not found")
             ELSE IF cells_count - 1 = 0 THEN Panic("remainder with a divisor of zero")
             ELSE LET client_info_cell == cl.info[1]
                      latest_id == FirstByte(client_info_cell.data)
                      oldest_id == OldestId(latest_id, cells_count)
                      sc == ScanClients(cl.client_cells, 1, latest_id, oldest_id, None, None)
                  IN  IF sc.panic.tag = "Panic" THEN sc.panic
                      ELSE IF sc.oldest = None \/ sc.latest = None
                      THEN Panic("oldest or latest client not found")
                      ELSE OkSome(sc.oldest[1], sc.latest[1], client_info_cell)

(***************************************************************************)
(* Transactions.                                                           *)
(***************************************************************************)
\* The relayer's address (its secp256k1 lock): the cells that pay for its
\* transactions.
AddressLock == [code_hash |-> << "secp256k1" >>, hash_type |-> "type", args |-> << "relayer" >>]

IsFunding(cell) == cell.lock = AddressLock /\ cell.type = NoScript

NoTx == [inputs |-> << >>, outputs |-> << >>, outputs_data |-> << >>,
         witnesses |-> << >>, cell_deps |-> << >>]

CellOutput(lock, type) == [lock |-> lock, type |-> type]

\* packed::CellDep of a code cell (DepType::Code).
CellDep(out_point) == [out_point |-> out_point, dep_type |-> "code"]

\* search_contract_cell (lines 44-62): the code cell deployed under a type-id
\* script, or the reported error when the search finds none.
search_contract_cell(script, found) ==
    IF found
    THEN [tag |-> "Ok", cell |-> LiveCell(<< "code", script.args >>, NoScript, script, InvalidData)]
    ELSE [tag |-> "Err", cell |-> NoCell]

\* Faulty variant: the proof update is put into the lock field.
ProofWitnessInLock(packed_proof_update) ==
    [lock |-> Some(packed_proof_update), input_type |-> None, output_type |-> None]

\* Lines 363-371 (and 252-260, 443-451): WitnessArgs with the proof update
\* as input_type and nothing else.
ProofWitness(packed_proof_update) ==
    [lock |-> None, input_type |-> Some(packed_proof_update), output_type |-> None]

RECURSIVE FirstFunding(_, _)
FirstFunding(cells, i) ==
    IF i > Len(cells) THEN None
    ELSE IF IsFunding(cells[i]) THEN Some(cells[i])
    ELSE FirstFunding(cells, i + 1)

\* TxCompleter::complete_tx_with_secp256k1_change: the draft balanced against
\* the address.  A draft that spends no cell of the address gets one as a
\* further input; the change goes to a new cell of the address.  The port
\* fails when it is told to (an RPC failure) or finds no cell to pay with.
complete_tx_with_secp256k1_change(tx, has_funding_input, complete_ok) ==
    LET fund == FirstFunding(live, 1)
        change == CellOutput(AddressLock, NoScript)
    IN  IF ~complete_ok \/ (~has_funding_input /\ fund = None)
        THEN [tag |-> "Err", tx |-> NoTx, new_inputs |-> << >>]
        ELSE [tag |-> "Ok",
              tx |-> [tx EXCEPT
                        !.inputs = IF has_funding_input THEN @
                                   ELSE Append(@, fund[1].out_point),
                        !.outputs = Append(@, change),
                        !.outputs_data = Append(@, InvalidData)],
              new_inputs |-> IF has_funding_input THEN << >>
                             ELSE << CellOutput(fund[1].lock, fund[1].type) >>]

\* What an assembler returns: the error, or the completed transaction with
\* the inputs in their output form.  draft is the transaction as it was
\* handed to the completion port (NoTx when the port was not called).
\* rival: what a second call returned that was made before the transaction
\* of this one was committed, if there was one.
AsmErr(what, draft_tx) ==
    [tag |-> "Err", err |-> what, draft |-> draft_tx, tx |-> NoTx,
     inputs_as_cell_outputs |-> << >>, rival |-> None]

AsmPanic(what) ==
    [tag |-> "Panic", err |-> what, draft |-> NoTx, tx |-> NoTx,
     inputs_as_cell_outputs |-> << >>, rival |-> None]

AsmOk(draft_tx, tx, inputs_as_cell_outputs) ==
    [tag |-> "Ok", err |-> "", draft |-> draft_tx, tx |-> tx,
     inputs_as_cell_outputs |-> inputs_as_cell_outputs, rival |-> None]

(***************************************************************************)
(* assemble_update_multi_client_transaction (assembler.rs 278-387).        *)
(***************************************************************************)
\* Lines 308-316.
UpdateTypeScript(contract_typeid_args, client_type_args) ==
    GroupTypeScript(contract_typeid_args, client_type_args)

\* Faulty variant: the ClientInfo record is written back with the last_id it had.
NewInfoDataStale(oldest_cell, info_cell) ==
    WithLastId(info_cell.data, FirstByte(info_cell.data))

\* Faulty variant: last_id is set to the slot after the spent one.
NewInfoDataNext(oldest_cell, info_cell) ==
    WithLastId(info_cell.data, FirstByte(oldest_cell.data) + 1)

\* Lines 318-327: the new ClientInfo record.
NewInfoData(oldest_cell, info_cell) ==
    LET last_id == FirstByte(oldest_cell.data)
    IN  WithLastId(info_cell.data, last_id)

\* Lines 337-338: the new Client record.
NewClientData(oldest_cell, updated_client) == updated_client

\* Faulty variant: only the ClientInfo cell is spent.
UpdateInputCellsInfoOnly(oldest_cell, info_cell) == << info_cell >>

\* Faulty variant: every cell of the group is spent.
UpdateInputCellsAll(oldest_cell, info_cell) ==
    << oldest_cell, info_cell >>
    \o SelectSeq(live, LAMBDA c : c.type = info_cell.type /\ c # oldest_cell /\ c # info_cell)

\* Line 348.
UpdateInputCells(oldest_cell, info_cell) == << oldest_cell, info_cell >>

assemble_update_multi_client_transaction(oldest_cell, info_cell, updated_client, client_type_args, lock_typeid_args, contract_typeid_args, packed_proof_update, env) ==
    LET contract_script == make_typeid_script(contract_typeid_args)
        contract == search_contract_cell(contract_script, env.contract)
        lock_script == make_typeid_script(lock_typeid_args)
        lock == search_contract_cell(lock_script, env.lock)
        type_script == UpdateTypeScript(contract_typeid_args, client_type_args)
        new_info_output == CellOutput(lock_script, type_script)
        new_info_output_data == NewInfoData(oldest_cell, info_cell)
        new_client_output == CellOutput(lock_script, type_script)
        new_client_output_data == NewClientData(oldest_cell, updated_client)
        input_cells == UpdateInputCells(oldest_cell, info_cell)
        tx == [inputs |-> [i \in 1 .. Len(input_cells) |-> input_cells[i].out_point],
               outputs |-> << new_info_output, new_client_output >>,
               outputs_data |-> << new_info_output_data, new_client_output_data >>,
               witnesses |-> << ProofWitness(packed_proof_update) >>,
               cell_deps |-> << CellDep(contract.cell.out_point),
                                CellDep(lock.cell.out_point) >>]
        done == complete_tx_with_secp256k1_change(tx, FALSE, env.complete)
    IN  IF contract.tag = "Err" THEN AsmErr("contract not found", NoTx)
        ELSE IF lock.tag = "Err" THEN AsmErr("contract not found", NoTx)
        ELSE IF done.tag = "Err" THEN AsmErr("completion failed", tx)
        ELSE AsmOk(tx, done.tx,
                   [i \in 1 .. Len(input_cells) |->
                        CellOutput(input_cells[i].lock, input_cells[i].type)]
                   \o done.new_inputs)

(***************************************************************************)
(* assemble_create_multi_client_transaction (assembler.rs 170-276).        *)
(***************************************************************************)
U8Modulus == 256

\* Line 179: clients.len() + 1 converted to u8.
CreateCellsCount(clients) == (Len(clients) + 1) % U8Modulus

\* utils::calculate_type_id(first_input, outputs_count): a hash of both.
calculate_type_id(first_input, outputs_count) == << "type_id", first_input, outputs_count >>

\* CellSearcher::search_cells_by_address_and_capacity(address, 1, ..): cells
\* of the address that hold the capacity asked for.
search_cells_by_address_and_capacity ==
    LET fund == FirstFunding(live, 1) IN IF fund = None THEN << >> ELSE << fund[1] >>

\* Faulty variant: the ClientInfo record is written after the Client records.
CreateOutputsDataInfoLast(client_info, clients) == clients \o << client_info >>

\* Lines 239-240: the ClientInfo record, then the Client records as supplied.
CreateOutputsData(client_info, clients) == << client_info >> \o clients

assemble_create_multi_client_transaction(clients, client_info, lock_typeid_args, contract_typeid_args, packed_proof_update, env) ==
    LET cells_count == CreateCellsCount(clients)
        contract_script == make_typeid_script(contract_typeid_args)
        contract_script_hash == calc_script_hash(contract_script)
        contract == search_contract_cell(contract_script, env.contract)
        lock_script == make_typeid_script(lock_typeid_args)
        lock == search_contract_cell(lock_script, env.lock)
        input_cells == search_cells_by_address_and_capacity
        inputs == [i \in 1 .. Len(input_cells) |-> input_cells[i].out_point]
        type_id == calculate_type_id(inputs[1], cells_count)
        client_type_args == [cells_count |-> cells_count, type_id |-> type_id]
        type_script == make_lightclient_script(contract_script_hash,
                                               ClientTypeArgsSlice(client_type_args))
        outputs_data == CreateOutputsData(client_info, clients)
        outputs == [i \in 1 .. Len(outputs_data) |-> CellOutput(lock_script, type_script)]
        tx == [inputs |-> inputs,
               outputs |-> outputs,
               outputs_data |-> outputs_data,
               witnesses |-> << ProofWitness(packed_proof_update) >>,
               cell_deps |-> << CellDep(contract.cell.out_point),
                                CellDep(lock.cell.out_point) >>]
        done == complete_tx_with_secp256k1_change(tx, TRUE, env.complete)
    IN  IF contract.tag = "Err" THEN AsmErr("contract not found", NoTx)
        ELSE IF lock.tag = "Err" THEN AsmErr("contract not found", NoTx)
        ELSE IF ~env.rpc THEN AsmErr("search failed", NoTx)
        ELSE IF inputs = << >> THEN AsmPanic("input cell not found")
        ELSE IF done.tag = "Err" THEN AsmErr("completion failed", tx)
        ELSE AsmOk(tx, done.tx,
                   [i \in 1 .. Len(input_cells) |->
                        CellOutput(input_cells[i].lock, input_cells[i].type)]
                   \o done.new_inputs)

(***************************************************************************)
(* fetch_packed_client (assembler.rs 148-168): the record of a single      *)
(* light client.                                                           *)
(***************************************************************************)
\* CellSearcher::search_cell_by_typescript(type_hash, args): the first live
\* cell whose type script is {code_hash: type_hash, hash_type: type, args}.
search_cell_by_typescript(type_hash, args) ==
    LET found == search_cells_by_typescript(type_hash, args, 1)
    IN  IF found = << >> THEN None ELSE Some(found[1])

\* Result<Option<PackedClient>, Error>.
Packed(tag, what, client) == [tag |-> tag, what |-> what, client |-> client]

NoPacked == Packed("Idle", "", None)

\* Faulty variant: the payload is wrapped without being validated.
PackedClientUnchecked(cell) == Packed("Ok", "", Some(cell.data))

\* Lines 159-163: the found cell's payload is validated as a Client record
\* before it is wrapped.
PackedClientOf(cell) ==
    IF ~PackedClientReader_verify(cell.data)
    THEN Packed("Err", "client format error", None)
    ELSE Packed("Ok", "", Some(cell.data))

fetch_packed_client(contract_typeid_args, client_id, rpc_ok) ==
    LET contract_typescript == make_typeid_script(contract_typeid_args)
        type_hash == calc_script_hash(contract_typescript)
        lightclient_cell_opt == search_cell_by_typescript(type_hash, client_id)
    IN  IF ~rpc_ok THEN Packed("Err", "search failed", None)
        ELSE IF lightclient_cell_opt # None THEN PackedClientOf(lightclient_cell_opt[1])
        ELSE Packed("Ok", "", None)

(***************************************************************************)
(* assemble_updates_into_transaction (assembler.rs 389-468): the cell of a *)
(* single light client, keyed by its client id.                            *)
(***************************************************************************)
\* address.payload().args(): the public key hash of the relayer's address.
PubkeyHash == << "relayer" >>

\* Faulty variant: the existing cell is never spent.
UpsertInputCellsNone(lightclient_cell_opt) == << >>

\* Lines 434-441: the existing cell, when there is one, is the only input.
UpsertInputCells(lightclient_cell_opt) ==
    IF lightclient_cell_opt # None THEN << lightclient_cell_opt[1] >> ELSE << >>

assemble_updates_into_transaction(packed_client, packed_proof_update, lock_typeid_args, contract_typeid_args, client_id, env) ==
    LET contract_typescript == make_typeid_script(contract_typeid_args)
        contract == search_contract_cell(contract_typescript, env.contract)
        mock_lockscript == make_typeid_script(lock_typeid_args)
        mock == search_contract_cell(mock_lockscript, env.lock)
        contract_typehash == calc_script_hash(contract_typescript)
        lightclient_cell_opt == search_cell_by_typescript(contract_typehash, client_id)
        lightclient_lock == make_lightclient_script(calc_script_hash(mock_lockscript), PubkeyHash)
        lightclient_type == make_lightclient_script(contract_typehash, client_id)
        output_data == packed_client
        output_cell == CellOutput(lightclient_lock, lightclient_type)
        input_cells == UpsertInputCells(lightclient_cell_opt)
        tx == [inputs |-> [i \in 1 .. Len(input_cells) |-> input_cells[i].out_point],
               outputs |-> << output_cell >>,
               outputs_data |-> << output_data >>,
               witnesses |-> << ProofWitness(packed_proof_update) >>,
               cell_deps |-> << CellDep(contract.cell.out_point),
                                CellDep(mock.cell.out_point) >>]
        done == complete_tx_with_secp256k1_change(tx, FALSE, env.complete)
    IN  IF contract.tag = "Err" THEN AsmErr("contract not found", NoTx)
        ELSE IF mock.tag = "Err" THEN AsmErr("contract not found", NoTx)
        ELSE IF ~env.rpc THEN AsmErr("search failed", NoTx)
        ELSE IF done.tag = "Err" THEN AsmErr("completion failed", tx)
        ELSE AsmOk(tx, done.tx,
                   [i \in 1 .. Len(input_cells) |->
                        CellOutput(input_cells[i].lock, input_cells[i].type)]
                   \o done.new_inputs)

(***************************************************************************)
(* The relayer's calls.  A fatal abort ends the relayer process and leaves *)
(* the ledger as it is; the operator starts the relayer again, so a call   *)
(* that aborted is recorded as a result like the others.  The relayer is   *)
(* synchronous: it makes one call at a time, and the variables hold the    *)
(* last one.                                                               *)
(***************************************************************************)
\* The ClientTypeArgs carried by the type script of a group cell.
ArgsOfSlice(slice) == [cells_count |-> slice[1], type_id |-> slice[2]]

NoArgs == [cells_count |-> 0, type_id |-> FreshTypeId]

Idle == [OkNone EXCEPT !.tag = "Idle"]

NoFetch == [args |-> NoArgs, result |-> Idle, client_id |-> << >>, rpc |-> TRUE, packed |-> NoPacked]

NoCall == [op |-> "none", oldest_cell |-> NoCell, info_cell |-> NoCell,
           updated_client |-> InvalidData, client_type_args |-> NoArgs,
           clients |-> << >>, client_info |-> InvalidData,
           packed_client |-> InvalidData, client_id |-> << >>,
           env |-> [contract |-> TRUE, lock |-> TRUE, rpc |-> TRUE, complete |-> TRUE],
           lock_typeid_args |-> LockTypeIdArgs]

NoDraft == AsmErr("none", NoTx)

GroupCells == { x \in Range(live) : x.type # NoScript }

\* The ClientTypeArgs a caller asks for: those of a group on the ledger, or
\* those of a group that does not exist.
QueryArgs ==
    { ArgsOfSlice(c.type.args) : c \in GroupCells }
    \cup { [cells_count |-> n, type_id |-> FreshTypeId] : n \in 0 .. MaxCellsCount }

\* What the ledger and the completion port answer during a call.
Envs == [contract : BOOLEAN, lock : BOOLEAN, rpc : BOOLEAN, complete : BOOLEAN]

\* One failure at a time.
OneFailure == { e \in Envs : Cardinality({ f \in DOMAIN e : ~e[f] }) <= 1 }

ProofUpdate == "proof update"

FetchUpdateCells ==
    /\ \E a \in QueryArgs, rpc_ok \in BOOLEAN :
          fetched' = [NoFetch EXCEPT
                        !.args = a,
                        !.result = fetch_update_cells(ContractTypeIdArgs, a, rpc_ok)]
    /\ call' = NoCall
    /\ draft' = NoDraft
    /\ UNCHANGED << live, ntx, committed >>
    /\ UNCHANGED chainvars

\* The caller hands over a Client cell and a ClientInfo cell of one group,
\* the group's ClientTypeArgs, and the record of the header it has verified
\* since (a new snapshot: no cell carries it yet), under any slot number.
UpdateCall(oldest_cell, info_cell, id, env, lock_typeid_args) ==
    /\ oldest_cell.type = info_cell.type
    /\ LET updated_client == PackedClient(id, ntx + 1)
           client_type_args == ArgsOfSlice(info_cell.type.args)
       IN  /\ call' = [NoCall EXCEPT !.op = "update",
                                     !.oldest_cell = oldest_cell,
                                     !.info_cell = info_cell,
                                     !.updated_client = updated_client,
                                     !.client_type_args = client_type_args,
                                     !.env = env,
                                     !.lock_typeid_args = lock_typeid_args]
           /\ draft' = assemble_update_multi_client_transaction(
                           oldest_cell, info_cell, updated_client, client_type_args,
                           lock_typeid_args, ContractTypeIdArgs, ProofUpdate, env)
    /\ fetched' = NoFetch
    /\ UNCHANGED << live, ntx, committed >>
    /\ UNCHANGED chainvars

AssembleUpdate ==
    /\ ntx < MaxTxs
    /\ \E oldest_cell \in { c \in GroupCells : PackedClientReader_verify(c.data) },
          info_cell \in { c \in GroupCells : PackedClientInfoReader_verify(c.data) },
          id \in Ids, env \in { e \in OneFailure : e.rpc } :
          UpdateCall(oldest_cell, info_cell, id, env, LockTypeIdArgs)

\* A second rotation is assembled from the cells the first was assembled
\* from, before the first is committed: the caller does not wait.  Its record
\* is of a later header, under any slot number.
AssembleRival ==
    /\ call.op = "update"
    /\ draft.tag = "Ok"
    /\ draft.rival = None
    /\ \E id \in Ids, env \in { e \in OneFailure : e.rpc } :
          draft' = [draft EXCEPT !.rival =
                       Some(assemble_update_multi_client_transaction(
                                call.oldest_cell, call.info_cell,
                                PackedClient(id, ntx + 2), call.client_type_args,
                                call.lock_typeid_args, ContractTypeIdArgs, ProofUpdate,
                                env))]
    /\ UNCHANGED << live, ntx, committed, fetched, call >>
    /\ UNCHANGED chainvars

\* The same call by a relayer whose configuration names one type id for the
\* contract and for the lock.
AssembleUpdateSharedCode ==
    /\ ntx < MaxTxs
    /\ \E oldest_cell \in { c \in GroupCells : PackedClientReader_verify(c.data) },
          info_cell \in { c \in GroupCells : PackedClientInfoReader_verify(c.data) },
          id \in Ids, env \in { e \in OneFailure : e.rpc } :
          UpdateCall(oldest_cell, info_cell, id, env, ContractTypeIdArgs)

\* The caller creates a group of k Client records, slots 0 .. k-1 in order,
\* with the ClientInfo record it chooses.
CreateCall(k, last_id, env, lock_typeid_args) ==
    LET clients == [i \in 1 .. k |-> PackedClient(i - 1, 0)]
        client_info == PackedClientInfo(last_id)
    IN  /\ call' = [NoCall EXCEPT !.op = "create",
                                  !.clients = clients,
                                  !.client_info = client_info,
                                  !.env = env,
                                  !.lock_typeid_args = lock_typeid_args]
        /\ draft' = assemble_create_multi_client_transaction(
                        clients, client_info, lock_typeid_args, ContractTypeIdArgs,
                        ProofUpdate, env)
        /\ fetched' = NoFetch
        /\ UNCHANGED << live, ntx, committed >>
        /\ UNCHANGED chainvars

AssembleCreate ==
    /\ ntx < MaxTxs
    /\ GroupCells = {}
    /\ \E k \in 0 .. (MaxCellsCount - 1), last_id \in Ids, env \in OneFailure :
          CreateCall(k, last_id, env, LockTypeIdArgs)

AssembleCreateSharedCode ==
    /\ ntx < MaxTxs
    /\ GroupCells = {}
    /\ \E k \in 0 .. (MaxCellsCount - 1), last_id \in Ids, env \in OneFailure :
          CreateCall(k, last_id, env, ContractTypeIdArgs)

\* The lengths of a client list at which clients.len() + 1 reaches the end of
\* the u8 range: the longest list whose group size fits, and the next one.
LongLists == { U8Modulus - 2, U8Modulus - 1 }

\* The caller creates a group from a long list of Client records.
AssembleCreateLong ==
    /\ ntx < MaxTxs
    /\ GroupCells = {}
    /\ \E k \in LongLists, last_id \in Ids, env \in OneFailure :
          CreateCall(k, last_id, env, LockTypeIdArgs)

\* The client ids of the single light clients the relayer serves.
ClientIds == { << "ckb4ibc-0" >>, << "ckb4ibc-1" >>, << "ckb4ibc-2" >> }

\* The caller writes the record of the header it has verified since into the
\* cell of one light client.
UpsertCall(client_id, env, lock_typeid_args) ==
    LET packed_client == PackedClient(0, ntx + 1)
    IN  /\ call' = [NoCall EXCEPT !.op = "upsert",
                                  !.packed_client = packed_client,
                                  !.client_id = client_id,
                                  !.env = env,
                                  !.lock_typeid_args = lock_typeid_args]
        /\ draft' = assemble_updates_into_transaction(
                        packed_client, ProofUpdate, lock_typeid_args,
                        ContractTypeIdArgs, client_id, env)
        /\ fetched' = NoFetch
        /\ UNCHANGED << live, ntx, committed >>
        /\ UNCHANGED chainvars

\* The caller reads the record of one light client.
FetchPackedClient ==
    /\ \E client_id \in ClientIds, rpc_ok \in BOOLEAN :
          fetched' = [NoFetch EXCEPT
                        !.client_id = client_id,
                        !.rpc = rpc_ok,
                        !.packed = fetch_packed_client(ContractTypeIdArgs, client_id, rpc_ok)]
    /\ call' = NoCall
    /\ draft' = NoDraft
    /\ UNCHANGED << live, ntx, committed >>
    /\ UNCHANGED chainvars

AssembleUpdatesIntoTransaction ==
    /\ ntx < MaxTxs
    /\ \E client_id \in ClientIds, env \in OneFailure :
          UpsertCall(client_id, env, LockTypeIdArgs)

AssembleUpdatesSharedCode ==
    /\ ntx < MaxTxs
    /\ \E client_id \in ClientIds, env \in OneFailure :
          UpsertCall(client_id, env, ContractTypeIdArgs)

(***************************************************************************)
(* The ledger commits the transaction the assembler returned: every input  *)
(* must be live; the inputs are consumed, and each output becomes a live   *)
(* cell at the out-point (transaction, index).                             *)
(***************************************************************************)
LiveOutPoints == { c.out_point : c \in Range(live) }

RECURSIVE Unspent(_, _, _)
Unspent(cells, spent, i) ==
    IF i > Len(cells) THEN << >>
    ELSE IF cells[i].out_point \in spent THEN Unspent(cells, spent, i + 1)
    ELSE << cells[i] >> \o Unspent(cells, spent, i + 1)

Committed(tx, n) ==
    Unspent(live, Range(tx.inputs), 1)
    \o [i \in 1 .. Len(tx.outputs) |->
            LiveCell(<< n, i - 1 >>, tx.outputs[i].lock, tx.outputs[i].type,
                     tx.outputs_data[i])]

Commit ==
    /\ draft.tag = "Ok"
    /\ Range(draft.tx.inputs) \subseteq LiveOutPoints
    /\ live' = Committed(draft.tx, ntx + 1)
    /\ ntx' = ntx + 1
    /\ committed' = Append(committed, [live |-> live, tx |-> draft.tx])
    /\ draft' = [draft EXCEPT !.tag = "Committed"]
    /\ UNCHANGED << fetched, call >>
    /\ UNCHANGED chainvars

\* The ledger commits the transaction of the second call.
CommitRival ==
    /\ draft.rival # None
    /\ draft.rival[1].tag = "Ok"
    /\ Range(draft.rival[1].tx.inputs) \subseteq LiveOutPoints
    /\ live' = Committed(draft.rival[1].tx, ntx + 1)
    /\ ntx' = ntx + 1
    /\ committed' = Append(committed, [live |-> live, tx |-> draft.rival[1].tx])
    /\ draft' = [draft EXCEPT !.rival = Some([@[1] EXCEPT !.tag = "Committed"])]
    /\ UNCHANGED << fetched, call >>
    /\ UNCHANGED chainvars

(***************************************************************************)
(* Ckb4IbcChain (ckb4ibc.rs): the connection, channel and packet cells of  *)
(* the ledger, the four caches of the endpoint, and its calls.             *)
(***************************************************************************)
\* Messages in one call of send_messages_and_wait_commit.
MaxMsgs == 2

ChannelIds == { 0 }

PortIds == { "transfer", "other" }

\* The width of the sequence field of PacketArgs (u16, line 219).
U16Modulus == 65536

\* Requested sequences are 64 bits wide (Sequence, line 210).
Sequences == { 1, U16Modulus + 1 }

\* A live cell of the IBC contracts, as the indexer reports it: its out-point
\* (transaction, output index), the index of its transaction in the block
\* (tx_index), and the object its payload decodes to.
IbcCell(out_point, tx_index, kind, channel_id, port_id, sequence, open, content) ==
    [out_point |-> out_point, tx_index |-> tx_index, kind |-> kind,
     channel_id |-> channel_id, port_id |-> port_id, sequence |-> sequence,
     open |-> open, content |-> content]

ConnectionCell(out_point, tx_index, content) ==
    IbcCell(out_point, tx_index, "connection", 0, "", 0, FALSE, content)

ChannelCell(out_point, tx_index, channel_id, port_id, open) ==
    IbcCell(out_point, tx_index, "channel", channel_id, port_id, 0, open, "")

\* HashMap.
EmptyMap == [k \in {} |-> 0]

MapPut(m, k, v) == [x \in (DOMAIN m) \cup { k } |-> IF x = k THEN v ELSE m[x]]

MapValues(m) == { m[k] : k \in DOMAIN m }

\* The order in which the indexer returns cells.
Before(a, b) == a[1] < b[1] \/ (a[1] = b[1] /\ a[2] <= b[2])

FirstCell(cells) ==
    CHOOSE c \in cells : \A d \in cells : Before(c.out_point, d.out_point)

\* The endpoint's caches as one value.
Caches == [channel_input_data |-> channel_input_data,
           channel_cache |-> channel_cache,
           connection_cache |-> connection_cache,
           packet_input_data |-> packet_input_data]

\* clear_cache (lines 333-344): all four caches emptied.
clear_cache(c) ==
    [channel_input_data |-> EmptyMap,
     channel_cache |-> EmptyMap,
     connection_cache |-> None,
     packet_input_data |-> EmptyMap]

\* The caches of a process that has just started (bootstrap).
NewCaches == [channel_input_data |-> EmptyMap, channel_cache |-> EmptyMap,
              connection_cache |-> None, packet_input_data |-> EmptyMap]

\* query_connection_and_cache (lines 346-396): the first live connection cell
\* and its transaction; on success the cache entry is swapped in.
query_connection_and_cache(c, how) ==
    LET found == { x \in ibc : x.kind = "connection" }
    IN  IF how # "ok" \/ found = {} THEN [tag |-> "Err", caches |-> c, value |-> None]
        ELSE LET cell == FirstCell(found)
                 entry == [connections |-> cell.content, input |-> cell.out_point]
             IN  [tag |-> "Ok",
                  caches |-> [c EXCEPT !.connection_cache = Some(entry)],
                  value |-> Some(entry)]

\* get_converter (lines 178-194): with an empty connection cache the
\* connection is queried and the result unwrapped.
get_converter(c, how) ==
    IF c.connection_cache = None
    THEN LET r == query_connection_and_cache(c, how)
         IN  IF r.tag = "Err" THEN [tag |-> "Panic", caches |-> c]
             ELSE [tag |-> "Ok", caches |-> r.caches]
    ELSE [tag |-> "Ok", caches |-> c]

\* Faulty variant: the found cell is cached before its transaction is
\* fetched.
fetch_channel_cell_cached_early(c, channel_id, port_id, is_open, conn_how, how) ==
    LET conv == get_converter(c, conn_how)
        found == { x \in ibc : /\ x.kind = "channel"
                               /\ x.channel_id = channel_id
                               /\ x.port_id = port_id
                               /\ x.open = is_open }
    IN  IF conv.tag = "Panic" THEN [tag |-> "Panic", caches |-> c, value |-> None]
        ELSE IF found = {}
        THEN [tag |-> "Err", caches |-> conv.caches, value |-> None]
        ELSE LET cell == FirstCell(found)
                 channel_end == [channel_id |-> cell.channel_id, port_id |-> cell.port_id,
                                 open |-> cell.open]
                 cell_input == << cell.out_point[1], cell.tx_index >>
                 cached == [conv.caches EXCEPT
                              !.channel_input_data =
                                  MapPut(@, << channel_end.channel_id, channel_end.port_id >>,
                                         cell_input),
                              !.channel_cache =
                                  MapPut(@, channel_end.channel_id, channel_end)]
             IN  IF how # "ok" THEN [tag |-> "Err", caches |-> cached, value |-> None]
                 ELSE [tag |-> "Ok", caches |-> cached, value |-> Some(channel_end)]

\* fetch_channel_cell_and_extract (lines 263-331).
fetch_channel_cell_and_extract(c, channel_id, port_id, is_open, conn_how, how) ==
    LET conv == get_converter(c, conn_how)
        found == { x \in ibc : /\ x.kind = "channel"
                               /\ x.channel_id = channel_id
                               /\ x.port_id = port_id
                               /\ x.open = is_open }
    IN  IF conv.tag = "Panic" THEN [tag |-> "Panic", caches |-> c, value |-> None]
        ELSE IF how # "ok" \/ found = {}
        THEN [tag |-> "Err", caches |-> conv.caches, value |-> None]
        ELSE LET cell == FirstCell(found)
                 channel_end == [channel_id |-> cell.channel_id, port_id |-> cell.port_id,
                                 open |-> cell.open]
                 cell_input == << cell.out_point[1], cell.tx_index >>
             IN  [tag |-> "Ok",
                  caches |-> [conv.caches EXCEPT
                                !.channel_input_data =
                                    MapPut(@, << channel_end.channel_id, channel_end.port_id >>,
                                           cell_input),
                                !.channel_cache =
                                    MapPut(@, channel_end.channel_id, channel_end)],
                  value |-> Some(channel_end)]

\* One lookup of a query: the variant of the predicate and the outcome.
Lookup(is_open, r) == [is_open |-> is_open, tag |-> r.tag]

\* The result of a query with the lookups it made.
WithLookups(r, lookups) ==
    [tag |-> r.tag, caches |-> r.caches, value |-> r.value, lookups |-> lookups]

\* Faulty variant: the failure of the first lookup is reported.
query_channel_first_only(c, channel_id, port_id, conn_how, first_how, second_how) ==
    LET r1 == fetch_channel_cell_and_extract(c, channel_id, port_id, FALSE,
                                             conn_how, first_how)
    IN  WithLookups(r1, << Lookup(FALSE, r1) >>)

\* Faulty variant: the lookup with open = true is made first.
query_channel_open_first(c, channel_id, port_id, conn_how, first_how, second_how) ==
    LET r1 == fetch_channel_cell_and_extract(c, channel_id, port_id, TRUE,
                                             conn_how, first_how)
        r2 == fetch_channel_cell_and_extract(r1.caches, channel_id, port_id, FALSE,
                                             conn_how, second_how)
    IN  IF r1.tag # "Err" THEN WithLookups(r1, << Lookup(TRUE, r1) >>)
        ELSE WithLookups(r2, << Lookup(TRUE, r1), Lookup(FALSE, r2) >>)

\* query_channel (lines 874-890): the lookup with open = false, and when it
\* fails the lookup with open = true.
query_channel(c, channel_id, port_id, conn_how, first_how, second_how) ==
    LET r1 == fetch_channel_cell_and_extract(c, channel_id, port_id, FALSE,
                                             conn_how, first_how)
        r2 == fetch_channel_cell_and_extract(r1.caches, channel_id, port_id, TRUE,
                                             conn_how, second_how)
    IN  IF r1.tag # "Err" THEN WithLookups(r1, << Lookup(FALSE, r1) >>)
        ELSE WithLookups(r2, << Lookup(FALSE, r1), Lookup(TRUE, r2) >>)

\* extract_connections_from_tx: the connection ends a connection cell holds,
\* each under its index.
IdentifiedConnectionEnds(connections) == << [id |-> 0, connection_end |-> connections] >>

\* query_connections (lines 784-790).
query_connections(c, how) ==
    LET r == query_connection_and_cache(c, how)
    IN  IF r.tag = "Err" THEN r
        ELSE [r EXCEPT !.value = Some(IdentifiedConnectionEnds(r.value[1].connections))]

\* query_client_connections (lines 792-798).
query_client_connections(c, how) ==
    LET r == query_connection_and_cache(c, how)
    IN  IF r.tag = "Err" THEN r
        ELSE LET result == IdentifiedConnectionEnds(r.value[1].connections)
             IN  [r EXCEPT !.value = Some([i \in 1 .. Len(result) |-> result[i].id])]

\* query_connection (lines 800-814): the connection end at the index the
\* connection id names.
query_connection(c, idx, how) ==
    LET r == query_connection_and_cache(c, how)
    IN  IF r.tag = "Err" THEN r
        ELSE LET connections == IdentifiedConnectionEnds(r.value[1].connections)
             IN  IF idx + 1 > Len(connections) THEN [r EXCEPT !.tag = "Err", !.value = None]
                 ELSE [r EXCEPT !.value = Some(connections[idx + 1].connection_end)]

\* query_unreceived_acknowledgements (lines 1008-1027).  packet_input_data is
\* borrowed mutably (line 1014) for the whole call; the lookup of the first
\* sequence builds a Converter (lines 213, 178-194), which borrows
\* packet_input_data again: RefCell::borrow panics.
query_unreceived_acknowledgements(c, channel_id, port_id, seqs, conn_how) ==
    IF seqs = << >> THEN [tag |-> "Ok", caches |-> c, value |-> << >>]
    ELSE [tag |-> "Panic", caches |-> c, value |-> << >>]

(***************************************************************************)
(* Packets (lines 206-261, 899-990).                                       *)
(***************************************************************************)
PacketStatuses == { "Send", "Recv", "InboxAck", "OutboxAck" }

PacketCell(out_point, tx_index, channel_id, port_id, sequence, status) ==
    IbcCell(out_point, tx_index, "packet", channel_id, port_id, sequence, FALSE, status)

\* Faulty variant: the search predicate carries the sequence at full width.
SearchSequenceWide(sequence) == sequence

\* Line 219: u64::from(sequence) as u16, the sequence of the search predicate.
SearchSequence(sequence) == sequence % U16Modulus

\* Faulty variant: every lookup retains the input reference in the packet
\* cache.
fetch_packet_cell_and_cache(c, channel_id, port_id, sequence, conn_how, how) ==
    LET conv == get_converter(c, conn_how)
        found == { x \in ibc : /\ x.kind = "packet"
                               /\ x.channel_id = channel_id
                               /\ x.port_id = port_id
                               /\ x.sequence = SearchSequence(sequence) }
    IN  IF conv.tag = "Panic" THEN [tag |-> "Panic", caches |-> c, value |-> None]
        ELSE IF how # "ok" \/ found = {}
        THEN [tag |-> "Err", caches |-> conv.caches, value |-> None]
        ELSE LET cell == FirstCell(found)
                 ibc_packet == [status |-> cell.content, sequence |-> cell.sequence,
                                source_port_id |-> cell.port_id,
                                tx_hash |-> Some(cell.out_point[1])]
                 cell_input == cell.out_point
             IN  [tag |-> "Ok",
                  caches |-> [conv.caches EXCEPT !.packet_input_data =
                                 MapPut(@, << channel_id, port_id, sequence >>, cell_input)],
                  value |-> Some([ibc_packet |-> ibc_packet, cell_input |-> cell_input])]

\* fetch_packet_cell_and_extract (lines 206-261): the packet of the first live
\* cell under the packet script of (channel, port, sequence narrowed to 16
\* bits), and the input that spends the cell.
fetch_packet_cell_and_extract(c, channel_id, port_id, sequence, conn_how, how) ==
    LET conv == get_converter(c, conn_how)
        found == { x \in ibc : /\ x.kind = "packet"
                               /\ x.channel_id = channel_id
                               /\ x.port_id = port_id
                               /\ x.sequence = SearchSequence(sequence) }
    IN  IF conv.tag = "Panic" THEN [tag |-> "Panic", caches |-> c, value |-> None]
        ELSE IF how # "ok" \/ found = {}
        THEN [tag |-> "Err", caches |-> conv.caches, value |-> None]
        ELSE LET cell == FirstCell(found)
                 ibc_packet == [status |-> cell.content, sequence |-> cell.sequence,
                                source_port_id |-> cell.port_id,
                                tx_hash |-> Some(cell.out_point[1])]
                 cell_input == cell.out_point
             IN  [tag |-> "Ok", caches |-> conv.caches,
                  value |-> Some([ibc_packet |-> ibc_packet, cell_input |-> cell_input])]

\* PacketArgs::get_search_args of a packet.
PacketSearchArgs(channel_id, port_id, sequence) ==
    << "packet args", channel_id, port_id, sequence >>

\* Lines 913-924, 951-962: the search arguments of the packet that was found,
\* under the requested channel.
FoundPacketArgs(r, channel_id) ==
    IF r.tag = "Ok"
    THEN PacketSearchArgs(channel_id, r.value[1].ibc_packet.source_port_id,
                          r.value[1].ibc_packet.sequence)
    ELSE << >>

\* Faulty variant: a packet of another status is reported as an error.
PacketPayloadStrict(r, status, payload) ==
    IF r.tag # "Ok" THEN r
    ELSE IF r.value[1].ibc_packet.status # status THEN [r EXCEPT !.tag = "Err", !.value = None]
    ELSE [r EXCEPT !.value = Some(payload)]

\* Lines 909-927, 947-965, 985-989: the lookup's error is returned; a packet
\* of another status gives the empty payload.
PacketPayload(r, status, payload) ==
    IF r.tag # "Ok" THEN r
    ELSE IF r.value[1].ibc_packet.status # status THEN [r EXCEPT !.value = Some(<< >>)]
    ELSE [r EXCEPT !.value = Some(payload)]

\* query_packet_commitment (lines 899-927).
query_packet_commitment(c, channel_id, port_id, sequence, conn_how, how) ==
    LET r == fetch_packet_cell_and_extract(c, channel_id, port_id, sequence, conn_how, how)
    IN  PacketPayload(r, "Send", FoundPacketArgs(r, channel_id))

\* query_packet_receipt (lines 937-965).
query_packet_receipt(c, channel_id, port_id, sequence, conn_how, how) ==
    LET r == fetch_packet_cell_and_extract(c, channel_id, port_id, sequence, conn_how, how)
    IN  PacketPayload(r, "Recv", FoundPacketArgs(r, channel_id))

\* query_packet_acknowledgement (lines 975-990).
query_packet_acknowledgement(c, channel_id, port_id, sequence, conn_how, how) ==
    LET r == fetch_packet_cell_and_extract(c, channel_id, port_id, sequence, conn_how, how)
    IN  PacketPayload(r, "InboxAck",
                      IF r.tag = "Ok" THEN << "tx", r.value[1].ibc_packet.tx_hash[1] >>
                      ELSE << >>)

\* query_packet_acknowledgements (lines 992-1006): the sequences whose lookup
\* succeeds and whose packet is an InboxAck; a failed lookup is dropped.
RECURSIVE InboxAcks(_, _, _, _, _, _, _, _)
InboxAcks(c, channel_id, port_id, seqs, conn_how, hows, i, result) ==
    IF i > Len(seqs) THEN [tag |-> "Ok", caches |-> c, value |-> Some(result)]
    ELSE LET r == fetch_packet_cell_and_extract(c, channel_id, port_id, seqs[i],
                                                conn_how, hows[i])
         IN  IF r.tag = "Panic" THEN r
             ELSE InboxAcks(r.caches, channel_id, port_id, seqs, conn_how, hows, i + 1,
                            IF r.tag = "Ok" /\ r.value[1].ibc_packet.status = "InboxAck"
                            THEN Append(result, r.value[1].ibc_packet.sequence)
                            ELSE result)

query_packet_acknowledgements(c, channel_id, port_id, seqs, conn_how, hows) ==
    InboxAcks(c, channel_id, port_id, seqs, conn_how, hows, 1, << >>)

(***************************************************************************)
(* send_messages_and_wait_commit (lines 560-655).                          *)
(***************************************************************************)
\* A message: what it changes, and what its conversion, the completion of its
\* draft and the sending of its transaction will answer.
Msg(kind, channel_id, port_id, convert_ok, complete_ok, send_ok) ==
    [kind |-> kind, channel_id |-> channel_id, port_id |-> port_id,
     convert_ok |-> convert_ok, complete_ok |-> complete_ok, send_ok |-> send_ok]

\* convert_msg_to_ckb_tx: a message that only reports an event has no
\* transaction; the transaction of a connection or channel message spends the
\* cell of the object through the cached input reference.
convert_msg_to_ckb_tx(msg, c) ==
    LET key == << msg.channel_id, msg.port_id >>
        refd == IF msg.kind = "connection"
                THEN Some(c.connection_cache[1].input)
                ELSE IF msg.kind = "channel" /\ key \in DOMAIN c.channel_input_data
                THEN Some(c.channel_input_data[key])
                ELSE None
    IN  IF ~msg.convert_ok THEN [tag |-> "Err", unsigned_tx |-> None, event |-> None]
        ELSE IF msg.kind = "event"
        THEN [tag |-> "Ok", unsigned_tx |-> None, event |-> Some(msg.kind)]
        ELSE IF refd = None THEN [tag |-> "Err", unsigned_tx |-> None, event |-> None]
        ELSE [tag |-> "Ok",
              unsigned_tx |-> Some([inputs |-> << refd[1] >>, kind |-> msg.kind,
                                    channel_id |-> msg.channel_id,
                                    port_id |-> msg.port_id,
                                    send_ok |-> msg.send_ok]),
              event |-> Some(msg.kind)]

TxHash(tx) == << "tx", tx.kind, tx.inputs >>

ZeroHash == << "zero" >>

IbcEventWithHeight(event, tx_hash) == [event |-> event, tx_hash |-> tx_hash]

\* Faulty variant: a draft that fails completion ends the call with an error.
RECURSIVE BuildTxsStrict(_, _, _, _, _, _, _)
BuildTxsStrict(msgs, i, c, key_ok, txs, events, result_events) ==
    IF i > Len(msgs)
    THEN [tag |-> "Ok", txs |-> txs, events |-> events, result_events |-> result_events]
    ELSE LET info == convert_msg_to_ckb_tx(msgs[i], c) IN
         IF info.tag = "Err"
         THEN [tag |-> "Err", txs |-> txs, events |-> events, result_events |-> result_events]
         ELSE IF info.unsigned_tx = None
         THEN BuildTxsStrict(msgs, i + 1, c, key_ok, txs, events,
                             IF info.event # None
                             THEN Append(result_events,
                                         IbcEventWithHeight(info.event[1], ZeroHash))
                             ELSE result_events)
         ELSE IF msgs[i].complete_ok /\ key_ok
         THEN BuildTxsStrict(msgs, i + 1, c, key_ok, Append(txs, info.unsigned_tx[1]),
                             Append(events, info.event), result_events)
         ELSE [tag |-> "Err", txs |-> txs, events |-> events,
               result_events |-> result_events]

\* Lines 569-617: the loop over the messages.
RECURSIVE BuildTxs(_, _, _, _, _, _, _)
BuildTxs(msgs, i, c, key_ok, txs, events, result_events) ==
    IF i > Len(msgs)
    THEN [tag |-> "Ok", txs |-> txs, events |-> events, result_events |-> result_events]
    ELSE LET info == convert_msg_to_ckb_tx(msgs[i], c) IN
         IF info.tag = "Err"
         THEN [tag |-> "Err", txs |-> txs, events |-> events, result_events |-> result_events]
         ELSE IF info.unsigned_tx = None
         THEN BuildTxs(msgs, i + 1, c, key_ok, txs, events,
                       IF info.event # None
                       THEN Append(result_events, IbcEventWithHeight(info.event[1], ZeroHash))
                       ELSE result_events)
         ELSE IF msgs[i].complete_ok
         THEN IF ~key_ok
              THEN [tag |-> "Err", txs |-> txs, events |-> events,
                    result_events |-> result_events]
              ELSE BuildTxs(msgs, i + 1, c, key_ok, Append(txs, info.unsigned_tx[1]),
                            Append(events, info.event), result_events)
         ELSE BuildTxs(msgs, i + 1, c, key_ok, txs, events, result_events)

\* The ledger's answer to a transaction: it commits when the send is answered,
\* its input is live and is the cell of the object the message changes.
SpentBy(tx, cells) ==
    { x \in cells : /\ x.out_point \in Range(tx.inputs)
                    /\ x.kind = tx.kind
                    /\ (tx.kind = "channel" =>
                          x.channel_id = tx.channel_id /\ x.port_id = tx.port_id) }

Commits(tx, cells) == tx.send_ok /\ Cardinality(SpentBy(tx, cells)) = Len(tx.inputs)

\* Lines 618-632: every transaction is sent and waited for.
RECURSIVE SendAll(_, _, _, _, _, _)
SendAll(txs, i, cells, n, resps, consumed) ==
    IF i > Len(txs)
    THEN [ibc |-> cells, ntx |-> n, resps |-> resps, consumed |-> consumed]
    ELSE IF Commits(txs[i], cells)
    THEN LET old == CHOOSE x \in SpentBy(txs[i], cells) : TRUE
             new == [old EXCEPT !.out_point = << n + 1, 0 >>, !.tx_index = 1,
                                !.open = (old.kind = "channel"),
                                !.content = IF old.kind = "connection" THEN n + 1 ELSE @]
         IN  SendAll(txs, i + 1, (cells \ { old }) \cup { new }, n + 1,
                     Append(resps, TRUE), consumed \cup { old.out_point })
    ELSE SendAll(txs, i + 1, cells, n, Append(resps, FALSE), consumed)

\* Faulty variant: every event is reported with the hash of the first
\* transaction.
RECURSIVE CollectEventsFirstHash(_, _, _, _, _)
CollectEventsFirstHash(resps, i, txs, events, result_events) ==
    IF i > Len(resps) THEN [tag |-> "Ok", result_events |-> result_events]
    ELSE IF resps[i]
    THEN CollectEventsFirstHash(resps, i + 1, txs, events,
                                IF events[i] # None
                                THEN Append(result_events,
                                            IbcEventWithHeight(events[i][1], TxHash(txs[1])))
                                ELSE result_events)
    ELSE [tag |-> "Err", result_events |-> << >>]

\* Lines 633-650: the events of the committed transactions, up to the first
\* failure.
RECURSIVE CollectEvents(_, _, _, _, _)
CollectEvents(resps, i, txs, events, result_events) ==
    IF i > Len(resps) THEN [tag |-> "Ok", result_events |-> result_events]
    ELSE IF resps[i]
    THEN CollectEvents(resps, i + 1, txs, events,
                       IF events[i] # None
                       THEN Append(result_events,
                                   IbcEventWithHeight(events[i][1], TxHash(txs[i])))
                       ELSE result_events)
    ELSE [tag |-> "Err", result_events |-> << >>]

\* Lines 651-654: what the call does to the caches once every transaction
\* of the batch is committed.
CachesAfterCommit(c) == clear_cache(c)

\* What is left in the caches when the call returns an error.
CachesAfterError(c) == c

send_messages_and_wait_commit(c, msgs, conn_how, key_ok) ==
    LET conv == get_converter(c, conn_how)
        built == BuildTxs(msgs, 1, conv.caches, key_ok, << >>, << >>, << >>)
        post == SendAll(built.txs, 1, ibc, ntx, << >>, {})
        got == CollectEvents(post.resps, 1, built.txs, built.events, built.result_events)
        nothing == [ibc |-> ibc, ntx |-> ntx, resps |-> << >>, consumed |-> {}]
    IN  IF conv.tag = "Panic"
        THEN [tag |-> "Panic", caches |-> c, events |-> << >>, ledger |-> nothing,
              txs |-> << >>]
        ELSE IF built.tag = "Err"
        THEN [tag |-> "Err", caches |-> CachesAfterError(conv.caches), events |-> << >>,
              ledger |-> nothing, txs |-> << >>]
        ELSE IF got.tag = "Err"
        THEN [tag |-> "Err", caches |-> CachesAfterError(conv.caches), events |-> << >>,
              ledger |-> post, txs |-> built.txs]
        ELSE [tag |-> "Ok", caches |-> CachesAfterCommit(conv.caches),
              events |-> got.result_events, ledger |-> post, txs |-> built.txs]

(***************************************************************************)
(* The endpoint's calls.  A panic ends the process; the process that is    *)
(* started next has empty caches.                                          *)
(***************************************************************************)
\* The request of a call: the object asked for and the answers the ledger
\* gives to the RPC requests of the call, in the order of its lookups.
Request(channel_id, port_id, sequences, hows) ==
    [channel_id |-> channel_id, port_id |-> port_id, sequences |-> sequences, hows |-> hows]

NoRequest == Request(0, "", << >>, << >>)

NoAnswer == [op |-> "none", tag |-> "none", value |-> None, lookups |-> << >>,
             request |-> NoRequest]

\* The outcome of a call that makes no channel lookup.
Answer(op, r, request) ==
    [op |-> op, tag |-> r.tag, value |-> r.value, lookups |-> << >>, request |-> request]

\* tag "Clearing": the call is inside clear_cache and has executed `clearing`
\* of its statements.
NoSent == [tag |-> "none", events |-> << >>, consumed |-> {}, resps |-> << >>,
           msgs |-> << >>, txs |-> << >>, clearing |-> 0]

SetCaches(c) ==
    /\ channel_input_data' = c.channel_input_data
    /\ channel_cache' = c.channel_cache
    /\ connection_cache' = c.connection_cache
    /\ packet_input_data' = c.packet_input_data

AfterCall(r) == SetCaches(IF r.tag = "Panic" THEN NewCaches ELSE r.caches)

\* The answers to the RPC requests of one lookup: all answered, or one failed.
Hows == { "ok", "err" }

\* The connection is asked of the ledger only while the cache holds none
\* (lines 179-181): with an entry cached there is no answer to choose.
ConnectionAsked(conn_how) == conn_how = "ok" \/ connection_cache = None

\* query_connections (lines 784-790).
QueryConnections ==
    /\ \E how \in Hows :
          LET r == query_connections(Caches, how)
          IN  /\ AfterCall(r)
              /\ answer' = Answer("query_connections", r, Request(0, "", << >>, << how >>))
    /\ sent' = NoSent
    /\ UNCHANGED << ibc, ntx >>
    /\ UNCHANGED lcvars

QueryChannel ==
    /\ \E channel_id \in ChannelIds, port_id \in PortIds,
          conn_how \in Hows, first_how \in Hows, second_how \in Hows :
          LET r == query_channel(Caches, channel_id, port_id, conn_how, first_how, second_how)
          IN  /\ ConnectionAsked(conn_how)
              /\ AfterCall(r)
              /\ answer' = [op |-> "query_channel", tag |-> r.tag, value |-> r.value,
                            lookups |-> r.lookups,
                            request |-> Request(channel_id, port_id, << >>,
                                                << conn_how, first_how, second_how >>)]
    /\ sent' = NoSent
    /\ UNCHANGED << ibc, ntx >>
    /\ UNCHANGED lcvars

QueryUnreceivedAcknowledgements ==
    /\ \E channel_id \in ChannelIds, port_id \in PortIds,
          seqs \in SeqsUpTo(Sequences, 1), conn_how \in Hows :
          LET r == query_unreceived_acknowledgements(Caches, channel_id, port_id, seqs,
                                                     conn_how)
          IN  /\ AfterCall(r)
              /\ answer' = Answer("query_unreceived_acknowledgements", r,
                                   Request(channel_id, port_id, seqs, << conn_how >>))
    /\ sent' = NoSent
    /\ UNCHANGED << ibc, ntx >>
    /\ UNCHANGED lcvars

\* query_client_connections (lines 792-798).
QueryClientConnections ==
    /\ \E how \in Hows :
          LET r == query_client_connections(Caches, how)
          IN  /\ AfterCall(r)
              /\ answer' = Answer("query_client_connections", r,
                                   Request(0, "", << >>, << how >>))
    /\ sent' = NoSent
    /\ UNCHANGED << ibc, ntx >>
    /\ UNCHANGED lcvars

\* The connection ids a caller asks for: the one of the ledger and one more.
ConnectionIdxs == { 0, 1 }

\* query_connection (lines 800-814).
QueryConnection ==
    /\ \E idx \in ConnectionIdxs, how \in Hows :
          LET r == query_connection(Caches, idx, how)
          IN  /\ AfterCall(r)
              /\ answer' = Answer("query_connection", r,
                                   Request(idx, "", << >>, << how >>))
    /\ sent' = NoSent
    /\ UNCHANGED << ibc, ntx >>
    /\ UNCHANGED lcvars

\* query_packet_commitment (lines 899-927).
QueryPacketCommitment ==
    /\ \E channel_id \in ChannelIds, port_id \in PortIds, sequence \in Sequences,
          conn_how \in Hows, how \in Hows :
          LET r == query_packet_commitment(Caches, channel_id, port_id, sequence,
                                           conn_how, how)
          IN  /\ ConnectionAsked(conn_how)
              /\ AfterCall(r)
              /\ answer' = Answer("query_packet_commitment", r,
                                   Request(channel_id, port_id, << sequence >>,
                                           << conn_how, how >>))
    /\ sent' = NoSent
    /\ UNCHANGED << ibc, ntx >>
    /\ UNCHANGED lcvars

\* query_packet_receipt (lines 937-965).
QueryPacketReceipt ==
    /\ \E channel_id \in ChannelIds, port_id \in PortIds, sequence \in Sequences,
          conn_how \in Hows, how \in Hows :
          LET r == query_packet_receipt(Caches, channel_id, port_id, sequence,
                                        conn_how, how)
          IN  /\ ConnectionAsked(conn_how)
              /\ AfterCall(r)
              /\ answer' = Answer("query_packet_receipt", r,
                                   Request(channel_id, port_id, << sequence >>,
                                           << conn_how, how >>))
    /\ sent' = NoSent
    /\ UNCHANGED << ibc, ntx >>
    /\ UNCHANGED lcvars

\* query_packet_acknowledgement (lines 975-990).
QueryPacketAcknowledgement ==
    /\ \E channel_id \in ChannelIds, port_id \in PortIds, sequence \in Sequences,
          conn_how \in Hows, how \in Hows :
          LET r == query_packet_acknowledgement(Caches, channel_id, port_id, sequence,
                                                conn_how, how)
          IN  /\ ConnectionAsked(conn_how)
              /\ AfterCall(r)
              /\ answer' = Answer("query_packet_acknowledgement", r,
                                   Request(channel_id, port_id, << sequence >>,
                                           << conn_how, how >>))
    /\ sent' = NoSent
    /\ UNCHANGED << ibc, ntx >>
    /\ UNCHANGED lcvars

QueryPacketAcknowledgements ==
    /\ \E channel_id \in ChannelIds, port_id \in PortIds,
          seqs \in SeqsUpTo(Sequences, 1), conn_how \in Hows :
          \E hows \in [1 .. Len(seqs) -> Hows] :
             LET r == query_packet_acknowledgements(Caches, channel_id, port_id, seqs,
                                                    conn_how, hows)
             IN  /\ ConnectionAsked(conn_how)
                 /\ AfterCall(r)
                 /\ answer' = Answer("query_packet_acknowledgements", r,
                                      Request(channel_id, port_id, seqs,
                                              << conn_how >> \o hows))
    /\ sent' = NoSent
    /\ UNCHANGED << ibc, ntx >>
    /\ UNCHANGED lcvars

\* The messages of a batch: an event-only message, a connection message, a
\* channel message, each with the answers its conversion, the completion of
\* its draft and the sending of its transaction get.
MsgSet ==
    { Msg("event", 0, "", TRUE, TRUE, TRUE) }
    \cup { Msg(kind, 0, IF kind = "channel" THEN "transfer" ELSE "", a, b, d) :
             kind \in { "connection", "channel" },
             a \in BOOLEAN, b \in BOOLEAN, d \in BOOLEAN }

Failures(msg) == { f \in { "convert_ok", "complete_ok", "send_ok" } : ~msg[f] }

\* The batches the endpoint is given: at most one answer of a batch fails.
Batches ==
    { b \in SeqsUpTo({ m \in MsgSet : Cardinality(Failures(m)) <= 1 }, MaxMsgs) :
        Cardinality({ i \in 1 .. Len(b) : Failures(b[i]) # {} }) <= 1 }

\* The outcome of a call of send_messages_and_wait_commit with its effect on
\* the ledger.  kept: whether the batch and its transactions are remembered
\* with the outcome.
SendOutcome(r, msgs, kept) ==
    /\ ibc' = r.ledger.ibc
    /\ ntx' = r.ledger.ntx
    /\ sent' = [NoSent EXCEPT !.tag = r.tag, !.events = r.events,
                               !.consumed = r.ledger.consumed,
                               !.resps = r.ledger.resps,
                               !.msgs = IF kept THEN msgs ELSE << >>,
                               !.txs = IF kept THEN r.txs ELSE << >>]
    /\ answer' = NoAnswer
    /\ UNCHANGED lcvars

\* The batches and answers a call is given inp the present state.
SendInputs ==
    { inp \in [msgs : Batches, conn_how : Hows, key_ok : BOOLEAN] :
        /\ ntx + Len(inp.msgs) <= MaxTxs
        /\ inp.conn_how = "ok" \/ connection_cache = None
        /\ inp.key_ok \/ \A i \in 1 .. Len(inp.msgs) : Failures(inp.msgs[i]) = {} }

SendMessagesAndWaitCommit ==
    \E inp \in SendInputs :
       LET r == send_messages_and_wait_commit(Caches, inp.msgs, inp.conn_how, inp.key_ok)
       IN  /\ AfterCall(r)
           /\ SendOutcome(r, inp.msgs, FALSE)

\* Faulty variant: the endpoint can be entered while a call is inside
\* clear_cache.
ExclusiveNever == TRUE

\* The borrow rules: send_messages_and_wait_commit and clear_cache take
\* &mut self (lines 557, 333) and the endpoint holds RefCell fields (lines
\* 119-122), so it is neither shared between threads nor entered again
\* before the call has returned.
Exclusive == sent.tag # "Clearing"

\* The first batch an endpoint sends, up to the call of clear_cache (lines
\* 560-652).
SendFirstBatch ==
    /\ Exclusive
    /\ ntx = 0
    /\ sent = NoSent
    /\ \E inp \in SendInputs :
          LET conv == get_converter(Caches, inp.conn_how)
              r == send_messages_and_wait_commit(Caches, inp.msgs, inp.conn_how, inp.key_ok)
          IN  /\ IF r.tag = "Ok" THEN SetCaches(conv.caches) ELSE AfterCall(r)
              /\ SendOutcome([r EXCEPT !.tag = IF @ = "Ok" THEN "Clearing" ELSE @],
                             inp.msgs, TRUE)

\* clear_cache (lines 333-344), one statement at a time; the call returns
\* after the last one (line 654).
ClearCacheStep ==
    /\ sent.tag = "Clearing"
    /\ channel_input_data' = IF sent.clearing = 0 THEN EmptyMap ELSE channel_input_data
    /\ channel_cache' = IF sent.clearing = 1 THEN EmptyMap ELSE channel_cache
    /\ packet_input_data' = IF sent.clearing = 2 THEN EmptyMap ELSE packet_input_data
    /\ connection_cache' = IF sent.clearing = 3 THEN None ELSE connection_cache
    /\ sent' = IF sent.clearing = 3
               THEN [sent EXCEPT !.tag = "Ok", !.clearing = 0]
               ELSE [sent EXCEPT !.clearing = @ + 1]
    /\ UNCHANGED << ibc, ntx, answer >>
    /\ UNCHANGED lcvars

\* The cells of the IBC contracts at genesis: one transaction (the second of
\* its block) made the connection cell, an open channel and a channel that is
\* not open.
GenesisIbc ==
    { ConnectionCell(<< 0, 0 >>, 1, 0),
      ChannelCell(<< 0, 1 >>, 1, 0, "transfer", TRUE),
      ChannelCell(<< 0, 2 >>, 1, 0, "other", FALSE) }

\* The endpoint after bootstrap: nothing cached, nothing called.
Bootstrapped ==
    /\ channel_input_data = EmptyMap
    /\ channel_cache = EmptyMap
    /\ connection_cache = None
    /\ packet_input_data = EmptyMap
    /\ answer = NoAnswer
    /\ sent = NoSent

InitChain ==
    /\ ibc \in { GenesisIbc, { x \in GenesisIbc : x.kind # "connection" } }
    /\ Bootstrapped
    /\ live = << >>
    /\ ntx = 0
    /\ fetched = NoFetch
    /\ committed = << >>
    /\ call = NoCall
    /\ draft = NoDraft

NextChain ==
    \/ QueryConnections
    \/ QueryChannel
    \/ QueryUnreceivedAcknowledgements
    \/ SendMessagesAndWaitCommit

SpecChain == InitChain /\ [][NextChain]_vars


(***************************************************************************)
(* SpecQuery: the queries of the endpoint on ledgers that hold a           *)
(* connection cell or none, channels under either or both variants of the  *)
(* predicate, and a packet of any status or none.                          *)
(***************************************************************************)
ChannelLayouts ==
    { {},
      { ChannelCell(<< 0, 1 >>, 1, 0, "transfer", TRUE),
        ChannelCell(<< 0, 2 >>, 1, 0, "other", FALSE) },
      { ChannelCell(<< 0, 1 >>, 1, 0, "transfer", TRUE),
        ChannelCell(<< 0, 2 >>, 1, 0, "transfer", FALSE) } }

PacketLayouts ==
    { {} } \cup { { PacketCell(<< 0, 3 >>, 1, 0, "transfer", 1, s) } : s \in PacketStatuses }

ConnectionLayouts == { {}, { ConnectionCell(<< 0, 0 >>, 1, 0) } }

InitQuery ==
    /\ \E conn \in ConnectionLayouts, chans \in ChannelLayouts, pkts \in PacketLayouts :
          ibc = conn \cup chans \cup pkts
    /\ Bootstrapped
    /\ live = << >>
    /\ ntx = 0
    /\ fetched = NoFetch
    /\ committed = << >>
    /\ call = NoCall
    /\ draft = NoDraft

NextQuery ==
    \/ QueryConnections
    \/ QueryClientConnections
    \/ QueryConnection
    \/ QueryChannel
    \/ QueryPacketCommitment
    \/ QueryPacketReceipt
    \/ QueryPacketAcknowledgement
    \/ QueryPacketAcknowledgements
    \/ QueryUnreceivedAcknowledgements

SpecQuery == InitQuery /\ [][NextQuery]_vars

\* The relayer's cell at genesis.
FundingCell == LiveCell(<< 0, 0 >>, AddressLock, NoScript, InvalidData)

Init ==
    /\ live \in { << >>, << FundingCell >> }
    /\ ntx = 0
    /\ fetched = NoFetch
    /\ committed = << >>
    /\ call = NoCall
    /\ draft = NoDraft
    /\ ibc = {}
    /\ Bootstrapped

Next ==
    \/ FetchUpdateCells
    \/ AssembleCreate
    \/ AssembleUpdate
    \/ Commit

Spec == Init /\ [][Next]_vars

(***************************************************************************)
(* SpecCreate: the drafts of assemble_create_multi_client_transaction for   *)
(* client lists of every length class, the long ones included.             *)
(***************************************************************************)
InitCreate == Init

NextCreate ==
    \/ AssembleCreate
    \/ AssembleCreateLong

SpecCreate == InitCreate /\ [][NextCreate]_vars

(***************************************************************************)
(* SpecUpsert: the cells of the single light clients, written and          *)
(* rewritten by assemble_updates_into_transaction.                         *)
(***************************************************************************)
InitUpsert == Init

NextUpsert ==
    \/ AssembleUpdatesIntoTransaction
    \/ Commit

SpecUpsert == InitUpsert /\ [][NextUpsert]_vars

(***************************************************************************)
(* SpecAssemble: the three assemblers on one ledger.                       *)
(***************************************************************************)
InitAssemble == Init

NextAssemble ==
    \/ AssembleCreate
    \/ AssembleUpdate
    \/ AssembleUpdatesIntoTransaction
    \/ Commit

SpecAssemble == InitAssemble /\ [][NextAssemble]_vars

(***************************************************************************)
(* SpecRace: rotations of a group that are assembled two at a time from    *)
(* the same cells and submitted in either order.                           *)
(***************************************************************************)
InitRace == Init

NextRace ==
    \/ AssembleCreate
    \/ AssembleUpdate
    \/ AssembleRival
    \/ Commit
    \/ CommitRival

SpecRace == InitRace /\ [][NextRace]_vars

(***************************************************************************)
(* SpecSharedCode: the three assemblers of a relayer whose lock type id is *)
(* the contract type id.                                                   *)
(***************************************************************************)
InitSharedCode == Init

NextSharedCode ==
    \/ AssembleCreateSharedCode
    \/ AssembleUpdateSharedCode
    \/ AssembleUpdatesSharedCode
    \/ Commit

SpecSharedCode == InitSharedCode /\ [][NextSharedCode]_vars

(***************************************************************************)
(* SpecFetch: fetch_update_cells over every ledger content, the corrupted  *)
(* ones included: any cells_count, any number of cells under the group's   *)
(* type script, any payloads in any order.                                 *)
(***************************************************************************)
\* Bytes both validators accept.
AmbiguousData == [vc |-> TRUE, vi |-> TRUE, b0 |-> 0, hdr |-> 0]

\* The payloads a cell under the group's type script may hold: the validators
\* are the only thing the code knows of them.
Payloads ==
    { PackedClient(id, 0) : id \in Ids }
    \cup { PackedClientInfo(id) : id \in Ids }
    \cup { InvalidData, AmbiguousData }

GenesisTypeId == << "genesis" >>

GenesisCell(i, data, cells_count) ==
    LiveCell(<< 0, i >>, make_typeid_script(LockTypeIdArgs),
             GroupTypeScript(ContractTypeIdArgs,
                             [cells_count |-> cells_count, type_id |-> GenesisTypeId]),
             data)

InitFetch ==
    /\ \E cells_count \in 0 .. MaxCellsCount, datas \in SeqsUpTo(Payloads, MaxCellsCount) :
          \* the search returns at most cells_count cells: one more cell on the
          \* ledger shows every case
          /\ Len(datas) <= cells_count + 1
          /\ live = [i \in 1 .. Len(datas) |-> GenesisCell(i, datas[i], cells_count)]
    /\ ntx = 0
    /\ fetched = NoFetch
    /\ committed = << >>
    /\ call = NoCall
    /\ draft = NoDraft
    /\ ibc = {}
    /\ Bootstrapped

NextFetch == FetchUpdateCells

SpecFetch == InitFetch /\ [][NextFetch]_vars

(***************************************************************************)
(* SpecPackedClient: fetch_packed_client over every ledger content: for    *)
(* each client id no cell or one cell, with any payload.                   *)
(***************************************************************************)
\* The payloads a cell under a single light client's type script may hold.
ClientPayloads == { PackedClient(0, 0), PackedClientInfo(0), InvalidData, AmbiguousData }

ClientIdOrder == << << "ckb4ibc-0" >>, << "ckb4ibc-1" >>, << "ckb4ibc-2" >> >>

\* The cell of a single light client, as assemble_updates_into_transaction
\* lays it out (lines 424-432), holding any payload.
ClientCell(i, data) ==
    LiveCell(<< 0, i >>,
             make_lightclient_script(calc_script_hash(make_typeid_script(LockTypeIdArgs)),
                                     PubkeyHash),
             make_lightclient_script(calc_script_hash(make_typeid_script(ContractTypeIdArgs)),
                                     ClientIdOrder[i]),
             data)

RECURSIVE ClientCells(_, _)
ClientCells(held, i) ==
    IF i > Len(ClientIdOrder) THEN << >>
    ELSE (IF held[i] = None THEN << >> ELSE << ClientCell(i, held[i][1]) >>)
         \o ClientCells(held, i + 1)

InitPackedClient ==
    /\ \E held \in [1 .. Len(ClientIdOrder) -> { None } \cup { Some(p) : p \in ClientPayloads }] :
          live = ClientCells(held, 1)
    /\ ntx = 0
    /\ fetched = NoFetch
    /\ committed = << >>
    /\ call = NoCall
    /\ draft = NoDraft
    /\ ibc = {}
    /\ Bootstrapped

NextPackedClient == FetchPackedClient

SpecPackedClient == InitPackedClient /\ [][NextPackedClient]_vars

(***************************************************************************)
(* Properties.                                                             *)
(***************************************************************************)
ContractTypeHash == calc_script_hash(make_typeid_script(ContractTypeIdArgs))

\* The cells the search of the last fetch_update_cells call returned.
Found ==
    search_cells_by_typescript(ContractTypeHash, ClientTypeArgsSlice(fetched.args),
                               fetched.args.cells_count)

\* The last call was fetch_update_cells and its search did not fail.
Searched == fetched.result.tag \notin { "Idle", "Err" }

IsInfo(cell) == cell.data.vi /\ ~cell.data.vc

IsClient(cell) == cell.data.vc /\ ~cell.data.vi

InfoIdx(cells) == { i \in 1 .. Len(cells) : IsInfo(cells[i]) }

\* Every cell of a group of size n, all of them, live under the args.
GroupOf(args) == Filter(live, GroupTypeScript(ContractTypeIdArgs, args), 1)

\* The group invariant: n cells, one ClientInfo with last_id < n - 1, the
\* others Client cells with each id of 0 .. n-2 once.
ValidGroup(cells, n) ==
    /\ n >= 2
    /\ Len(cells) = n
    /\ Cardinality(InfoIdx(cells)) = 1
    /\ \A i \in 1 .. Len(cells) : IsInfo(cells[i]) \/ IsClient(cells[i])
    /\ \A id \in 0 .. (n - 2) :
          Cardinality({ i \in 1 .. Len(cells) :
                          IsClient(cells[i]) /\ cells[i].data.b0 = id }) = 1
    /\ \A i \in InfoIdx(cells) : cells[i].data.b0 < n - 1

InfoOf(cells) == cells[CHOOSE i \in InfoIdx(cells) : TRUE]

ClientWithId(cells, id) ==
    cells[CHOOSE i \in 1 .. Len(cells) : IsClient(cells[i]) /\ cells[i].data.b0 = id]

\* C1: for every valid group of size N, fetch_update_cells returns
\* Some{oldest, latest, info} with oldest.id = (last_id + 1) mod (N - 1),
\* latest.id = last_id and info the ClientInfo cell.
C1_FetchReturnsOldestLatestInfo ==
    (Searched /\ ValidGroup(Found, fetched.args.cells_count)) =>
        LET n == fetched.args.cells_count
            last_id == InfoOf(Found).data.b0
        IN  /\ fetched.result.tag = "OkSome"
            /\ fetched.result.info = InfoOf(Found)
            /\ fetched.result.latest = ClientWithId(Found, last_id)
            /\ fetched.result.oldest = ClientWithId(Found, (last_id + 1) % (n - 1))

\* A step that commits a rotation built by assemble_update_multi_client_transaction.
RotationCommitted == ntx' = ntx + 1 /\ call.op = "update"

\* The rotation was built from the oldest Client cell and the ClientInfo cell
\* of a valid group.
BuiltFromOldestAndInfo(cells, n) ==
    /\ ValidGroup(cells, n)
    /\ call.info_cell = InfoOf(cells)
    /\ call.oldest_cell = ClientWithId(cells, (InfoOf(cells).data.b0 + 1) % (n - 1))

\* C2 as stated: a committed rotation built from the oldest and ClientInfo
\* cells of a valid group, with whatever updated Client record the caller
\* supplies, leaves a valid group.
C2_RotationKeepsGroupAnyRecord ==
    [][(RotationCommitted
        /\ BuiltFromOldestAndInfo(GroupOf(call.client_type_args),
                                  call.client_type_args.cells_count))
       => ValidGroup(GroupOf(call.client_type_args), call.client_type_args.cells_count)']_vars

\* C2 amended: a committed rotation built from the oldest and ClientInfo cells
\* of a valid group and an updated Client record that carries the id of the
\* spent oldest cell leaves a valid group: N cells, one ClientInfo, Client ids
\* 0 .. N-2 once each.
C2_RotationKeepsGroup ==
    [][(RotationCommitted
        /\ BuiltFromOldestAndInfo(GroupOf(call.client_type_args),
                                  call.client_type_args.cells_count)
        /\ call.updated_client.b0 = call.oldest_cell.data.b0)
       => ValidGroup(GroupOf(call.client_type_args), call.client_type_args.cells_count)']_vars

\* A second rotation of a group of three has been committed, built from the
\* oldest and the ClientInfo cell with a record for the oldest's slot, and
\* the group is valid.
C2_Witness ==
    /\ draft.tag = "Committed"
    /\ call.op = "update"
    /\ ntx = 3
    /\ call.client_type_args.cells_count = 3
    /\ call.info_cell.data.b0 < 2
    /\ call.oldest_cell.data.b0 = (call.info_cell.data.b0 + 1) % 2
    /\ call.updated_client.b0 = call.oldest_cell.data.b0
    /\ ValidGroup(GroupOf(call.client_type_args), 3)

\* The last call was assemble_update_multi_client_transaction and it built
\* its draft (both code cells were found).
UpdateDrafted == call.op = "update" /\ draft.draft # NoTx

\* C3: the rotation draft has exactly two inputs, the oldest Client cell and
\* the ClientInfo cell, and exactly two outputs, both of the group; when the
\* rotation is committed every other cell of the group stays live as it is.
C3_RotationTouchesTwoCells ==
    [][/\ UpdateDrafted' =>
            /\ draft'.draft.inputs = << call'.oldest_cell.out_point,
                                        call'.info_cell.out_point >>
            /\ Len(draft'.draft.outputs) = 2
            /\ Len(draft'.draft.outputs_data) = 2
            /\ \A i \in 1 .. 2 : draft'.draft.outputs[i].type = call'.info_cell.type
       /\ RotationCommitted =>
            /\ \A c \in Range(GroupOf(call.client_type_args)) :
                  c \notin { call.oldest_cell, call.info_cell } => c \in Range(live')
            /\ Cardinality({ c \in Range(live') :
                               c.type = call.info_cell.type /\ c \notin Range(live) }) = 2
      ]_vars

\* A rotation of a group of three is committed, and the Client cell the
\* rotation did not name is still the cell the creating transaction made.
C3_Witness ==
    /\ draft.tag = "Committed"
    /\ call.op = "update"
    /\ call.client_type_args.cells_count = 3
    /\ \E c \in Range(GroupOf(call.client_type_args)) :
          /\ c.out_point[1] = 1
          /\ IsClient(c)
          /\ c.out_point # call.oldest_cell.out_point

\* C4: in the rotation draft the new ClientInfo record is the old one with
\* last_id set to the id of the spent oldest cell, the new Client record is
\* the caller's, and both outputs carry the type script fetch_update_cells
\* searches: the hash of the contract's type-id script, and the unchanged
\* ClientTypeArgs.
C4_RotationOutputs ==
    UpdateDrafted =>
        /\ draft.draft.outputs_data[1] =
               [call.info_cell.data EXCEPT !.b0 = call.oldest_cell.data.b0]
        /\ IsInfo([data |-> draft.draft.outputs_data[1]])
        /\ draft.draft.outputs_data[2] = call.updated_client
        /\ \A i \in 1 .. 2 :
              /\ draft.draft.outputs[i].type =
                     make_lightclient_script(ContractTypeHash,
                                             ClientTypeArgsSlice(call.client_type_args))
              /\ draft.draft.outputs[i].type = call.info_cell.type

\* A rotation draft whose record carries another id than the spent cell and
\* whose spent cell is not the slot last_id named.
C4_Witness ==
    /\ UpdateDrafted
    /\ draft.tag = "Ok"
    /\ call.updated_client.b0 # call.oldest_cell.data.b0
    /\ call.info_cell.data.b0 # call.oldest_cell.data.b0

\* C5: when the search finds no cell, fetch_update_cells returns Ok(None),
\* whatever cells_count is.
C5_NoCellsIsNone ==
    (Searched /\ Len(Found) = 0) => fetched.result = OkNone

\* Ok(None) for a group of two that is not on the ledger, while other cells are.
C5_Witness ==
    /\ fetched.result.tag = "OkNone"
    /\ fetched.args.cells_count = 2
    /\ live # << >>

\* C6: for a group of one ClientInfo cell (last_id 0) and one Client cell
\* (id 0), fetch_update_cells returns the Client cell as oldest and as latest.
C6_GroupOfTwo ==
    (Searched /\ fetched.args.cells_count = 2 /\ ValidGroup(Found, 2)) =>
        /\ fetched.result.tag = "OkSome"
        /\ fetched.result.oldest = ClientWithId(Found, 0)
        /\ fetched.result.latest = ClientWithId(Found, 0)

\* C9: when the search finds some cells, but not cells_count of them,
\* fetch_update_cells aborts on the count; it returns nothing.
C9_CountMismatchAborts ==
    (Searched /\ Len(Found) # 0 /\ Len(Found) # fetched.args.cells_count) =>
        fetched.result = Panic("fetched client cells count not match")

\* Two cells found of a group of three: the abort on the count.
C9_Witness ==
    /\ Searched
    /\ Len(Found) = 2
    /\ fetched.args.cells_count = 3
    /\ fetched.result.tag = "Panic"

\* cells_count cells were found and exactly two of them decode as ClientInfo.
TwoInfosFound ==
    /\ Searched
    /\ Len(Found) = fetched.args.cells_count
    /\ Cardinality(InfoIdx(Found)) = 2

EarlierInfo == CHOOSE i \in InfoIdx(Found) : \A j \in InfoIdx(Found) : i <= j

LaterInfo == CHOOSE i \in InfoIdx(Found) : \A j \in InfoIdx(Found) : j <= i

\* C10 as stated: with two ClientInfo cells among the cells_count cells
\* found, fetch_update_cells aborts with the diagnostic that names the
\* earlier and the later ClientInfo record.
C10_TwoInfosNamedAlways ==
    TwoInfosFound =>
        fetched.result = PanicTwoInfo(Found[EarlierInfo].data, Found[LaterInfo].data)

\* C10 amended: with two ClientInfo cells among the cells_count cells found,
\* fetch_update_cells aborts and returns nothing; the abort names the earlier
\* and the later ClientInfo record when no cell the search returned before
\* the later one has a payload that neither validator accepts.
C10_TwoInfosAbort ==
    TwoInfosFound =>
        /\ fetched.result.tag = "Panic"
        /\ (\A i \in 1 .. LaterInfo : IsInfo(Found[i]) \/ IsClient(Found[i])) =>
              fetched.result.panic = "more than one client info"
              /\ fetched.result.first = Found[EarlierInfo].data
              /\ fetched.result.second = Found[LaterInfo].data

\* Two ClientInfo records with different last_id and a Client cell, found
\* for a group of three; the abort names both.
C10_Witness ==
    /\ TwoInfosFound
    /\ fetched.args.cells_count = 3
    /\ Found[EarlierInfo].data # Found[LaterInfo].data
    /\ \E i \in 1 .. 3 : IsClient(Found[i])
    /\ fetched.result.panic = "more than one client info"


(***************************************************************************)
(* Ckb4IbcChain: the caches after send_messages_and_wait_commit.           *)
(***************************************************************************)
\* The last call of the endpoint was send_messages_and_wait_commit and it
\* returned (a value or an error, not a panic).
SendReturned == sent.tag \in { "Ok", "Err" }

CachesEmpty ==
    /\ channel_input_data = EmptyMap
    /\ channel_cache = EmptyMap
    /\ connection_cache = None
    /\ packet_input_data = EmptyMap

\* C7: when send_messages_and_wait_commit has returned, with Ok or with Err,
\* the channel input cache, the channel end cache, the connection cache and
\* the packet input cache are all empty.
C7_CachesEmptyAfterSend == SendReturned => CachesEmpty

\* The input references the caches hold.
CachedInputs ==
    MapValues(channel_input_data)
    \cup MapValues(packet_input_data)
    \cup (IF connection_cache = None THEN {} ELSE { connection_cache[1].input })

\* C8: when send_messages_and_wait_commit has returned, no cache holds an
\* input reference to a cell that a transaction committed during that call
\* has consumed; batches of which only a part committed included.
C8_NoCachedReferenceToConsumedCell ==
    SendReturned => CachedInputs \cap sent.consumed = {}

(***************************************************************************)
(* fetch_update_cells: groups that break the invariant.                    *)
(***************************************************************************)
\* The search of the last call returned cells_count cells, and some.
GroupFound == Searched /\ Len(Found) = fetched.args.cells_count /\ Len(Found) > 0

\* The cells of the search result the classification takes for Client cells
\* (line 100).
ClientIdx(cells) == { i \in 1 .. Len(cells) : PackedClientReader_verify(cells[i].data) }

DuplicateClientId(cells) ==
    \E i, j \in ClientIdx(cells) : i # j /\ cells[i].data.b0 = cells[j].data.b0

ClientIdOutOfRange(cells, n) ==
    \E i \in ClientIdx(cells) : cells[i].data.b0 > n - 2

\* C11: when the cells found hold two Client cells with one id, or a Client
\* cell whose id is outside 0 .. cells_count-2, fetch_update_cells aborts; it
\* does not return Some.
C11_DuplicateOrOutOfRangeAborts ==
    (GroupFound /\ (DuplicateClientId(Found)
                    \/ ClientIdOutOfRange(Found, fetched.args.cells_count))) =>
        fetched.result.tag = "Panic"

\* A group of three whose two Client cells both carry the id that is neither
\* last_id nor the oldest id, and are outside the range: the abort.
C11_Witness ==
    /\ GroupFound
    /\ fetched.args.cells_count = 3
    /\ Cardinality(InfoIdx(Found)) = 1
    /\ InfoOf(Found).data.b0 = 0
    /\ \A i \in ClientIdx(Found) : Found[i].data.b0 = 2
    /\ Cardinality(ClientIdx(Found)) = 2
    /\ fetched.result.tag = "Panic"

\* No cell found is taken for the ClientInfo cell (lines 100-102, 116).
NoInfoFound(cells) ==
    \A i \in 1 .. Len(cells) :
        PackedClientReader_verify(cells[i].data)
        \/ ~PackedClientInfoReader_verify(cells[i].data)

\* The last_id of the first cell taken for the ClientInfo cell.
LastIdFound(cells) ==
    cells[CHOOSE i \in 1 .. Len(cells) :
            /\ ~PackedClientReader_verify(cells[i].data)
            /\ PackedClientInfoReader_verify(cells[i].data)
            /\ \A j \in 1 .. (i - 1) :
                  PackedClientReader_verify(cells[j].data)
                  \/ ~PackedClientInfoReader_verify(cells[j].data)].data.b0

NoClientWithId(cells, id) == \A i \in ClientIdx(cells) : cells[i].data.b0 # id

\* C12: when cells_count cells are found and none is a ClientInfo cell, or
\* no Client cell carries last_id, or none carries the oldest id
\* (last_id + 1) mod (cells_count - 1), fetch_update_cells aborts: it returns
\* neither Some nor None nor Err.
C12_MissingInfoLatestOrOldestAborts ==
    (GroupFound
     /\ (\/ NoInfoFound(Found)
         \/ NoClientWithId(Found, LastIdFound(Found))
         \/ fetched.args.cells_count = 1
         \/ NoClientWithId(Found, (LastIdFound(Found) + 1)
                                  % (fetched.args.cells_count - 1)))) =>
        fetched.result.tag = "Panic"

\* A group of three with its ClientInfo cell and the Client cell of last_id,
\* without a Client cell of the oldest id: the abort.
C12_Witness ==
    /\ GroupFound
    /\ fetched.args.cells_count = 3
    /\ ~NoInfoFound(Found)
    /\ LastIdFound(Found) = 1
    /\ ~NoClientWithId(Found, 1)
    /\ NoClientWithId(Found, 0)
    /\ \A i \in 1 .. 3 : Found[i].data # InvalidData
    /\ fetched.result.tag = "Panic"

\* What the classification loop makes of the cells found.
Classified == ClassifyCells(Found, 1, << >>, None)

AcceptedByBoth(data) ==
    PackedClientReader_verify(data) /\ PackedClientInfoReader_verify(data)

AcceptedByNeither(data) ==
    ~PackedClientReader_verify(data) /\ ~PackedClientInfoReader_verify(data)

AcceptedByOne(data) == ~AcceptedByBoth(data) /\ ~AcceptedByNeither(data)

\* The loop reaches cell i: no cell before it ends the loop.
Reached(cells, i) ==
    /\ \A j \in 1 .. (i - 1) : ~AcceptedByNeither(cells[j].data)
    /\ Cardinality({ j \in 1 .. (i - 1) :
                       /\ ~PackedClientReader_verify(cells[j].data)
                       /\ PackedClientInfoReader_verify(cells[j].data) }) <= 1

\* C13 as stated: a payload both validators accept and a payload neither
\* accepts are both corruption (an abort), and only a cell exactly one
\* validator accepts is counted as Client or as ClientInfo.
C13_OnlyOneValidatorCounts ==
    GroupFound =>
        /\ (\E i \in 1 .. Len(Found) : ~AcceptedByOne(Found[i].data)) =>
              fetched.result.tag = "Panic"
        /\ \A c \in Range(Classified.client_cells) : AcceptedByOne(c.data)
        /\ Classified.info # None => AcceptedByOne(Classified.info[1].data)

\* C13 amended: a payload neither validator accepts aborts the
\* classification with the invalid-data diagnostic; every cell the Client
\* validator accepts is counted as Client, also when the ClientInfo validator
\* accepts it too; a cell is counted as ClientInfo only when the ClientInfo
\* validator accepts it and the Client validator does not.
C13_ClientValidatorFirst ==
    GroupFound =>
        /\ \A i \in 1 .. Len(Found) :
              (AcceptedByNeither(Found[i].data) /\ Reached(Found, i)) =>
                  fetched.result = Panic("invalid data")
        /\ \A i \in 1 .. Len(Found) :
              (PackedClientReader_verify(Found[i].data) /\ Reached(Found, i)) =>
                  Found[i] \in Range(Classified.client_cells)
        /\ \A c \in Range(Classified.client_cells) : PackedClientReader_verify(c.data)
        /\ Classified.info # None =>
              /\ PackedClientInfoReader_verify(Classified.info[1].data)
              /\ ~PackedClientReader_verify(Classified.info[1].data)

\* A group of three with a ClientInfo cell, a Client cell and a cell both
\* validators accept, which is counted as the second Client cell.
C13_Witness ==
    /\ GroupFound
    /\ fetched.args.cells_count = 3
    /\ \E i \in 1 .. 3 : AcceptedByBoth(Found[i].data) /\ Reached(Found, i)
    /\ Len(Classified.client_cells) = 2
    /\ Classified.info # None
    /\ fetched.result.tag = "Panic"

\* C14: with cells_count = 1 and one cell found, fetch_update_cells aborts
\* whatever the cell holds; it returns no value, so no oldest id is derived.
C14_GroupOfOneAborts ==
    (Searched /\ fetched.args.cells_count = 1 /\ Len(Found) = 1) =>
        fetched.result.tag = "Panic"

\* The one cell is a ClientInfo cell: the abort is the remainder by
\* cells_count - 1 = 0.
C14_Witness ==
    /\ Searched
    /\ fetched.args.cells_count = 1
    /\ Len(Found) = 1
    /\ IsInfo(Found[1])
    /\ fetched.result = Panic("remainder with a divisor of zero")

(***************************************************************************)
(* Groups made by assemble_create_multi_client_transaction.                *)
(***************************************************************************)
CellsCountOf(cell) == ArgsOfSlice(cell.type.args).cells_count

\* C15 as stated: the ClientInfo cell of every group that was created and
\* rotated by the assemblers carries last_id < cells_count - 1.
C15_LastIdBelowSlotsAlways ==
    \A c \in GroupCells : IsInfo(c) => c.data.b0 < CellsCountOf(c) - 1

LastIdInRange == \A c \in GroupCells : IsInfo(c) => c.data.b0 < CellsCountOf(c) - 1

\* Every slot number on the ledger is one of the group: last_id and every
\* Client id are in 0 .. cells_count - 2.
SlotsInRange ==
    \A c \in GroupCells :
        (IsInfo(c) \/ IsClient(c)) => c.data.b0 < CellsCountOf(c) - 1

CreateCommitted == ntx' = ntx + 1 /\ call.op = "create"

\* C15 amended: a group created from a ClientInfo record with
\* last_id < cells_count - 1 and Client records with ids in
\* 0 .. cells_count - 2, and rotated each time with a Client cell of the group
\* as the oldest cell and an updated record whose id is in
\* 0 .. cells_count - 2, keeps last_id < cells_count - 1 (and every Client id
\* in range): the creation establishes it and every rotation preserves it.
C15_LastIdInRange ==
    [][/\ (CreateCommitted
           /\ call.client_info.b0 < Len(call.clients)
           /\ \A i \in 1 .. Len(call.clients) : call.clients[i].b0 < Len(call.clients))
          => (SlotsInRange /\ LastIdInRange)'
       /\ (RotationCommitted
           /\ SlotsInRange
           /\ call.oldest_cell \in GroupCells
           /\ call.info_cell \in GroupCells
           /\ call.updated_client.b0 < call.client_type_args.cells_count - 1)
          => (SlotsInRange /\ LastIdInRange)'
      ]_vars

\* A group of three, created and rotated twice, whose last record went to
\* the slot that was not the oldest: last_id and the ids are in range.
C15_Witness ==
    /\ ntx = 3
    /\ draft.tag = "Committed"
    /\ call.op = "update"
    /\ call.client_type_args.cells_count = 3
    /\ call.updated_client.b0 # call.oldest_cell.data.b0
    /\ SlotsInRange
    /\ \E c \in GroupCells : IsInfo(c) /\ c.data.b0 = 1

(***************************************************************************)
(* C16.  The draft of assemble_create_multi_client_transaction.            *)
(***************************************************************************)
CreateDrafted == call.op = "create" /\ draft.draft # NoTx

CreateLock == make_typeid_script(LockTypeIdArgs)

\* C16: the draft of a create has exactly clients.len() + 1 outputs and as many
\* payloads: the ClientInfo record at index 0, then one output per Client record
\* in the order supplied, every output under the same lock and the same type
\* script.
C16_CreateOutputs ==
    CreateDrafted =>
        LET tx == draft.draft
            n == Len(call.clients)
        IN  /\ Len(tx.outputs) = n + 1
            /\ Len(tx.outputs_data) = n + 1
            /\ tx.outputs_data[1] = call.client_info
            /\ \A i \in 1 .. n : tx.outputs_data[i + 1] = call.clients[i]
            /\ \A i \in 1 .. (n + 1) :
                  /\ tx.outputs[i].lock = CreateLock
                  /\ tx.outputs[i].type = tx.outputs[1].type
                  /\ tx.outputs[i].type.code_hash = ContractTypeHash

C16_Witness ==
    /\ CreateDrafted
    /\ draft.tag = "Ok"
    /\ Len(call.clients) = 2
    /\ call.clients[1] # call.clients[2]
    /\ Len(draft.draft.outputs) = 3
    /\ draft.draft.outputs_data = << call.client_info, call.clients[1], call.clients[2] >>

(***************************************************************************)
(* C17.  The cells_count of a created group.                               *)
(***************************************************************************)
\* C17: for every length of the supplied client list, the cells_count written
\* into the type args of the new group, which is also the output count the
\* type-id is derived with, equals clients.len() + 1, the number of group
\* outputs of the draft.
C17_CellsCountIsGroupSize ==
    CreateDrafted =>
        LET tx == draft.draft
            args == ArgsOfSlice(tx.outputs[1].type.args)
        IN  /\ args.cells_count = Len(call.clients) + 1
            /\ args.cells_count = Len(tx.outputs)
            /\ args.type_id = calculate_type_id(tx.inputs[1], Len(tx.outputs))

(***************************************************************************)
(* C18.  The draft of assemble_updates_into_transaction.                   *)
(***************************************************************************)
\* The draft of the last call, on the ledger it was built from.
UpsertDrafted == call.op = "upsert" /\ draft.draft # NoTx /\ draft.tag # "Committed"

LightClientType(client_id) ==
    make_lightclient_script(ContractTypeHash, client_id)

\* The live cells of the light client client_id.
LightClientCells(client_id) ==
    { c \in Range(live) : c.type = LightClientType(client_id) }

\* C18: the draft of assemble_updates_into_transaction has exactly one
\* light-client output; it has exactly one input, the existing cell, when the
\* search finds a cell for the client id, and no input when it finds none.
C18_UpsertDraft ==
    UpsertDrafted =>
        LET tx == draft.draft
            existing == LightClientCells(call.client_id)
        IN  /\ Len(tx.outputs) = 1
            /\ tx.outputs[1].type = LightClientType(call.client_id)
            /\ tx.outputs_data = << call.packed_client >>
            /\ existing # {} =>
                  /\ Len(tx.inputs) = 1
                  /\ \E c \in existing : tx.inputs[1] = c.out_point
            /\ existing = {} => tx.inputs = << >>

\* A draft that spends the existing cell of its light client, while another
\* light client has a cell too.
C18_Witness ==
    /\ UpsertDrafted
    /\ draft.tag = "Ok"
    /\ Len(draft.draft.inputs) = 1
    /\ \E c \in LightClientCells(call.client_id) : draft.draft.inputs[1] = c.out_point
    /\ \E other \in ClientIds \ { call.client_id } : LightClientCells(other) # {}

(***************************************************************************)
(* C19.  The failure policy of the assemblers.                             *)
(***************************************************************************)
\* The last call was an assembler's, and the ledger is the one it ran on.
Assembled == call.op \in { "create", "update", "upsert" } /\ draft.tag # "Committed"

\* A code cell was missing or a cell search failed during the last call: the
\* searches of the contract and lock code cells in every assembler, the
\* light-client cell search of the single-client update, and the funding-cell
\* search of the create, which fails when the RPC does or when the address
\* has no cell.
SearchFailed ==
    \/ ~call.env.contract
    \/ ~call.env.lock
    \/ call.op \in { "create", "upsert" } /\ ~call.env.rpc
    \/ call.op = "create" /\ search_cells_by_address_and_capacity = << >>

\* C19: in all three assemblers a failing cell search or a missing contract or
\* lock code cell, the funding-cell search of the create included, results in
\* a returned Err: the operation does not abort and does not call the
\* transaction completion port.
C19_SearchFailureIsErr ==
    (Assembled /\ SearchFailed) => (draft.tag = "Err" /\ draft.draft = NoTx)

(***************************************************************************)
(* C20.  The two lookups of query_channel.                                 *)
(***************************************************************************)
ChannelQueried == answer.op = "query_channel"

\* C20: query_channel reports an error only after a lookup under the "not
\* open" variant of the predicate and a lookup under the "open" variant have
\* both been attempted and have both failed.
C20_ErrAfterBothLookups ==
    (ChannelQueried /\ answer.tag = "Err") =>
        /\ Len(answer.lookups) = 2
        /\ answer.lookups[1] = [is_open |-> FALSE, tag |-> "Err"]
        /\ answer.lookups[2] = [is_open |-> TRUE, tag |-> "Err"]

\* An error reported while the ledger holds a channel cell: the RPC failed in
\* both lookups, or the cell is of another channel.
C20_Witness ==
    /\ ChannelQueried
    /\ answer.tag = "Err"
    /\ Len(answer.lookups) = 2
    /\ \E x \in ibc : x.kind = "channel"

(***************************************************************************)
(* C21.  The lookups of query_channel.                                     *)
(***************************************************************************)
\* The live channel cells of (channel_id, port_id) under one variant.
ChannelCellsOf(channel_id, port_id, is_open) ==
    { x \in ibc : /\ x.kind = "channel" /\ x.channel_id = channel_id
                  /\ x.port_id = port_id /\ x.open = is_open }

\* The channel asked for exists only under the "not open" variant.
OnlyNotOpen ==
    /\ ChannelCellsOf(answer.request.channel_id, answer.request.port_id, FALSE) # {}
    /\ ChannelCellsOf(answer.request.channel_id, answer.request.port_id, TRUE) = {}

ConnectionLive == \E x \in ibc : x.kind = "connection"

\* C21: when the channel exists only under the "not open" variant (and the
\* ledger answers the lookup), query_channel returns the not-open channel
\* end; in every run query_channel makes at most two channel lookups, one per
\* variant, and stops at the first that succeeds.
C21_NotOpenFoundAtMostTwoLookups ==
    ChannelQueried =>
        LET lookups == answer.lookups
            n == Len(lookups)
        IN  /\ n \in 1 .. 2
            /\ \A i \in 1 .. n : lookups[i].is_open = (i = 2)
            /\ \A i \in 1 .. (n - 1) : lookups[i].tag = "Err"
            /\ lookups[n].tag = answer.tag
            /\ (OnlyNotOpen /\ ConnectionLive
                 /\ answer.request.hows[1] = "ok" /\ answer.request.hows[2] = "ok")
                => /\ answer.tag = "Ok"
                   /\ answer.value = Some([channel_id |-> answer.request.channel_id,
                                           port_id |-> answer.request.port_id,
                                           open |-> FALSE])
                   /\ n = 1

C21_Witness ==
    /\ ChannelQueried
    /\ OnlyNotOpen
    /\ answer.tag = "Ok"
    /\ answer.value[1].open = FALSE
    /\ Len(answer.lookups) = 1

(***************************************************************************)
(* C22.  query_unreceived_acknowledgements.                                *)
(***************************************************************************)
\* The live packet cells of (channel_id, port_id, sequence).
PacketCellsOf(channel_id, port_id, sequence) ==
    { x \in ibc : /\ x.kind = "packet" /\ x.channel_id = channel_id
                  /\ x.port_id = port_id /\ x.sequence = sequence }

\* The requested sequences whose packet cell is found with status Send.
SendSequences ==
    SelectSeq(answer.request.sequences,
              LAMBDA s : \E x \in PacketCellsOf(answer.request.channel_id,
                                                answer.request.port_id, s) :
                            x.content = "Send")

\* C22: query_unreceived_acknowledgements returns every requested sequence
\* whose packet cell is found with status Send and keeps the packet's input
\* reference in the packet cache under (channel id, port id, sequence); the
\* other sequences are omitted without an error.
C22_UnreceivedAcksReturnedAndCached ==
    answer.op = "query_unreceived_acknowledgements" =>
        /\ answer.tag = "Ok"
        /\ (ConnectionLive /\ answer.request.hows[1] = "ok") =>
              /\ answer.value = SendSequences
              /\ \A i \in 1 .. Len(SendSequences) :
                    LET key == << answer.request.channel_id, answer.request.port_id,
                                  SendSequences[i] >>
                    IN  /\ key \in DOMAIN packet_input_data
                        /\ \E x \in PacketCellsOf(key[1], key[2], key[3]) :
                              packet_input_data[key] = x.out_point

(***************************************************************************)
(* C23.  Packet queries for a status the packet does not have.             *)
(***************************************************************************)
PacketQueried ==
    answer.op \in { "query_packet_commitment", "query_packet_receipt",
                    "query_packet_acknowledgement" }

\* The status each packet query asks for.
WantedStatus ==
    CASE answer.op = "query_packet_commitment" -> "Send"
      [] answer.op = "query_packet_receipt" -> "Recv"
      [] answer.op = "query_packet_acknowledgement" -> "InboxAck"
      [] OTHER -> "none"

\* The packet cells the last packet query asked for.
RequestedPackets ==
    PacketCellsOf(answer.request.channel_id, answer.request.port_id,
                  answer.request.sequences[1])

\* The ledger answers the requests of the last query: the connection is
\* there and no RPC request fails.
LedgerAnswers ==
    /\ ConnectionLive
    /\ \A i \in 1 .. Len(answer.request.hows) : answer.request.hows[i] = "ok"

StatusDiffers ==
    /\ PacketQueried
    /\ RequestedPackets # {}
    /\ \A x \in RequestedPackets : x.content # WantedStatus

\* C23: a packet query whose requested status differs from the actual status
\* of the record returns the empty payload with Ok, not an error.
C23_OtherStatusIsEmptyOk ==
    StatusDiffers =>
        /\ answer.tag = "Ok" => answer.value = Some(<< >>)
        /\ LedgerAnswers => answer.tag = "Ok"

\* Scenario E: the commitment of a packet whose status is Recv.
C23_Witness ==
    /\ answer.op = "query_packet_commitment"
    /\ \E x \in RequestedPackets : x.content = "Recv"
    /\ answer.tag = "Ok"
    /\ answer.value = Some(<< >>)

(***************************************************************************)
(* C24.  Failures of the ledger during a query.                            *)
(***************************************************************************)
\* The last call is one of the queries that build the converter.
ConverterQueried ==
    \/ ChannelQueried
    \/ PacketQueried
    \/ answer.op = "query_unreceived_acknowledgements"

\* C24: a ledger query failure, or an absent cell or transaction, met during
\* query_channel, the packet queries, query_unreceived_acknowledgements or
\* while the converter is built, is returned as an Err value and never aborts
\* the process.
C24_FailureIsErr ==
    (ConverterQueried /\ answer.tag # "Ok") => answer.tag = "Err"

(***************************************************************************)
(* C25.  The connection cache.                                             *)
(***************************************************************************)
\* The step is a connection query that returns the connection set.
ConnectionSetQueried ==
    answer'.op \in { "query_connections", "query_client_connections" }

\* The step is a call that reads the connection: a connection query, or a
\* channel or packet query (which build the converter).
ConnectionRead ==
    answer'.op \in { "query_connections", "query_client_connections", "query_connection",
                     "query_channel", "query_packet_commitment", "query_packet_receipt",
                     "query_packet_acknowledgement" }

\* C25: once the connection cache holds an entry, later connection queries
\* and get_converter use the cached connection set and input reference
\* without a new ledger query and without replacing the entry: the entry
\* stays as it is, and a connection query succeeds whatever the ledger
\* answers.
C25_CachedConnectionIsRead ==
    [][(connection_cache # None /\ ConnectionRead) =>
          /\ connection_cache' = connection_cache
          /\ ConnectionSetQueried => answer'.tag = "Ok"]_vars

(***************************************************************************)
(* C26.  The keys of the channel caches.                                   *)
(***************************************************************************)
\* C26: the channel caches are keyed by the (channel id, port id) pair: after
\* successful lookups of (c, p1) and (c, p2) both input references and both
\* channel ends are held, neither overwriting the other.  Every pair whose
\* input reference is cached has its channel end cached too.
C26_ChannelCachesKeyedByPair ==
    \A key \in DOMAIN channel_input_data :
        \E e \in MapValues(channel_cache) :
            e.channel_id = key[1] /\ e.port_id = key[2]

(***************************************************************************)
(* C27.  The input references of the lookups.                              *)
(***************************************************************************)
\* C27: the input reference a connection, channel or packet lookup returns or
\* caches names exactly the live cell the search returned: the transaction
\* hash and the output index of the cell's out-point.
C27_ReferenceIsOutPoint ==
    /\ connection_cache # None =>
          \E x \in ibc : x.kind = "connection" /\ connection_cache[1].input = x.out_point
    /\ \A key \in DOMAIN channel_input_data :
          \E x \in ibc : /\ x.kind = "channel"
                          /\ x.channel_id = key[1] /\ x.port_id = key[2]
                          /\ channel_input_data[key] = x.out_point
    /\ \A key \in DOMAIN packet_input_data :
          \E x \in PacketCellsOf(key[1], key[2], key[3]) :
              packet_input_data[key] = x.out_point

(***************************************************************************)
(* C28.  The witness of a draft.                                           *)
(***************************************************************************)
\* An assembler has handed a draft to the completion port.
Drafted == call.op \in { "create", "update", "upsert" } /\ draft.draft # NoTx

\* C28: in every draft built by the three light-client assemblers the witness
\* list has exactly one entry, at slot 0, whose input_type field carries the
\* proof-update bytes and whose lock field is left empty for the signing
\* step.
C28_OneWitnessWithProof ==
    Drafted =>
        /\ Len(draft.draft.witnesses) = 1
        /\ draft.draft.witnesses[1].input_type = Some(ProofUpdate)
        /\ draft.draft.witnesses[1].lock = None

\* Each of the three assemblers has built a draft.
C28_Witness ==
    /\ Drafted
    /\ call.op = "upsert"
    /\ draft.tag = "Ok"
    /\ Len(draft.draft.witnesses) = 1
    /\ \E c \in Range(live) : IsInfo(c)

(***************************************************************************)
(* C29.  The cell dependencies of a draft.                                 *)
(***************************************************************************)
\* C29: the cell-dependency list of every draft built by the assemblers has
\* no two entries that refer to the same contract code cell, also when
\* lock_typeid_args equals contract_typeid_args.
C29_CellDepsDistinct ==
    Drafted =>
        \A i, j \in 1 .. Len(draft.draft.cell_deps) :
            i # j => draft.draft.cell_deps[i].out_point # draft.draft.cell_deps[j].out_point

(***************************************************************************)
(* C30: fetch_packed_client, once the search has answered, returns         *)
(* Ok(None) when no live cell carries the client id, a reported Err        *)
(* ("client format error") when the found cell's payload fails Client      *)
(* validation, and Ok(Some(client)) holding the found payload otherwise;   *)
(* it never aborts.                                                        *)
(***************************************************************************)
PackedClientFetched == fetched.packed.tag # "Idle" /\ fetched.rpc

\* The live cells under the contract's type script with the asked client id.
ClientCellsOf(client_id) ==
    { i \in 1 .. Len(live) :
         /\ live[i].type.code_hash = calc_script_hash(make_typeid_script(ContractTypeIdArgs))
         /\ live[i].type.hash_type = "type"
         /\ live[i].type.args = client_id }

C30_PackedClientResult ==
    PackedClientFetched =>
        LET found == ClientCellsOf(fetched.client_id)
            first == CHOOSE i \in found : \A j \in found : i <= j
        IN  /\ fetched.packed.tag \in { "Ok", "Err" }
            /\ found = {} => fetched.packed = Packed("Ok", "", None)
            /\ (found # {} /\ ~live[first].data.vc) =>
                   /\ fetched.packed.tag = "Err"
                   /\ fetched.packed.what = "client format error"
            /\ (found # {} /\ live[first].data.vc) =>
                   fetched.packed = Packed("Ok", "", Some(live[first].data))

\* A found cell holding bytes that are no Client record was reported.
C30_Witness ==
    /\ PackedClientFetched
    /\ ClientCellsOf(fetched.client_id) # {}
    /\ fetched.packed.tag = "Err"
    /\ \E i \in ClientCellsOf(fetched.client_id) : live[i].data = InvalidData

(***************************************************************************)
(* SpecSend: the first batch an endpoint sends after its lookups, the      *)
(* batch kept with the outcome, and clear_cache taken one statement at a   *)
(* time.                                                                   *)
(***************************************************************************)
InitSend == InitChain

NextSend ==
    \/ Exclusive /\ QueryConnections
    \/ Exclusive /\ QueryChannel
    \/ SendFirstBatch
    \/ ClearCacheStep

SpecSend == InitSend /\ [][NextSend]_vars

(***************************************************************************)
(* C31: clearing the caches is atomic for every observer: while a call is  *)
(* inside clear_cache, with some of the four caches cleared and others not *)
(* yet, no operation of the endpoint runs; the only step taken is the next *)
(* statement of clear_cache.                                               *)
(***************************************************************************)
HalfCleared == sent.tag = "Clearing" /\ sent.clearing \in 1 .. 3

PacketQueries ==
    { "query_packet_commitment", "query_packet_receipt",
      "query_packet_acknowledgement", "query_packet_acknowledgements" }

C32_PacketQueriesKeepCaches ==
    [][answer'.op \in PacketQueries =>
          /\ packet_input_data' = packet_input_data
          /\ channel_input_data' = channel_input_data
          /\ channel_cache' = channel_cache]_vars

\* A packet query has found its packet while a channel was cached.
C32_Witness ==
    /\ answer.op \in PacketQueries
    /\ answer.tag = "Ok"
    /\ answer.value \notin { None, Some(<< >>) }
    /\ channel_cache # EmptyMap
    /\ channel_input_data # EmptyMap

(***************************************************************************)
(* C33: two rotations of one group assembled from the same cells, the      *)
(* oldest Client cell and the ClientInfo cell of the valid group, both     *)
(* spend those two cells; the ledger commits at most one of them; and      *)
(* whichever is committed leaves a valid group.                            *)
(***************************************************************************)
\* Both rotations were drafted.
TwoDrafts ==
    /\ call.op = "update"
    /\ draft.rival # None
    /\ draft.draft # NoTx
    /\ draft.rival[1].draft # NoTx

\* The Client record the rotation committed by this step writes.
CommittedRecord == IF draft'.tag = "Committed" /\ draft.tag # "Committed"
                   THEN draft.draft.outputs_data[2]
                   ELSE draft.rival[1].draft.outputs_data[2]

SameInputsOneCommit ==
    TwoDrafts =>
        /\ draft.draft.inputs = << call.oldest_cell.out_point, call.info_cell.out_point >>
        /\ draft.rival[1].draft.inputs = draft.draft.inputs
        /\ ~(draft.tag = "Committed" /\ draft.rival[1].tag = "Committed")

\* C33 as stated: with whatever Client records the two callers supply.
C33_RaceKeepsGroupAnyRecord ==
    [][/\ SameInputsOneCommit'
       /\ (TwoDrafts /\ ntx' = ntx + 1
           /\ BuiltFromOldestAndInfo(GroupOf(call.client_type_args),
                                     call.client_type_args.cells_count))
          => ValidGroup(GroupOf(call.client_type_args),
                        call.client_type_args.cells_count)']_vars

\* C33 amended: when the record of the rotation that is committed carries the
\* id of the spent oldest cell.
C33_RaceKeepsGroup ==
    [][/\ SameInputsOneCommit'
       /\ (TwoDrafts /\ ntx' = ntx + 1
           /\ BuiltFromOldestAndInfo(GroupOf(call.client_type_args),
                                     call.client_type_args.cells_count)
           /\ CommittedRecord.b0 = call.oldest_cell.data.b0)
          => ValidGroup(GroupOf(call.client_type_args),
                        call.client_type_args.cells_count)']_vars

\* The second of two rotations of a valid group of three was committed; the
\* first, complete, can no longer be: its inputs are spent.
C33_Witness ==
    /\ TwoDrafts
    /\ draft.tag = "Ok"
    /\ draft.rival[1].tag = "Committed"
    /\ call.client_type_args.cells_count = 3
    /\ draft.rival[1].draft.outputs_data[2].b0 = call.oldest_cell.data.b0
    /\ ~(Range(draft.tx.inputs) \subseteq LiveOutPoints)
    /\ ValidGroup(GroupOf(call.client_type_args), 3)

(***************************************************************************)
(* C34: over N-1 consecutive committed rotations of a valid group of size  *)
(* N, each replacing the oldest Client cell by a record that carries its   *)
(* id, every Client slot is overwritten exactly once, in the order         *)
(* last_id + 1, last_id + 2, ... mod (N - 1), and last_id is again what it *)
(* was before the first of them.                                           *)
(***************************************************************************)
\* The cells of a group a committed transaction spent.
SpentOf(e) ==
    { c \in Range(e.live) : c.out_point \in Range(e.tx.inputs) /\ c.type # NoScript }

SpentInfo(e) == CHOOSE c \in SpentOf(e) : IsInfo(c)

SpentClient(e) == CHOOSE c \in SpentOf(e) : IsClient(c)

SizeOf(e) == ArgsOfSlice(SpentInfo(e).type.args).cells_count

\* The transaction is a rotation: it spent the ClientInfo cell of a group and
\* the Client cell fetch_update_cells calls the oldest, and its record carries
\* the id of that cell.
IsRotation(e) ==
    /\ Cardinality(SpentOf(e)) = 2
    /\ \E c \in SpentOf(e) : IsInfo(c)
    /\ \E c \in SpentOf(e) : IsClient(c)
    /\ SpentInfo(e).type = SpentClient(e).type
    /\ SizeOf(e) >= 2
    /\ SpentClient(e).data.b0 = OldestId(SpentInfo(e).data.b0, SizeOf(e))
    /\ e.tx.outputs_data[2].b0 = SpentClient(e).data.b0

\* The live cells after the i-th committed transaction.
LiveAfter(i) == IF i = Len(committed) THEN live ELSE committed[i + 1].live

\* N - 1 rotations of one valid group of size N start at the a-th committed
\* transaction.
RoundAt(a) ==
    /\ IsRotation(committed[a])
    /\ ValidGroup(Filter(committed[a].live, SpentInfo(committed[a]).type, 1),
                  SizeOf(committed[a]))
    /\ a + SizeOf(committed[a]) - 2 <= Len(committed)
    /\ \A i \in a .. (a + SizeOf(committed[a]) - 2) :
          /\ IsRotation(committed[i])
          /\ SpentInfo(committed[i]).type = SpentInfo(committed[a]).type

C34_RoundOverwritesEverySlotOnce ==
    \A a \in 1 .. Len(committed) :
       RoundAt(a) =>
          LET n == SizeOf(committed[a])
              last_id == SpentInfo(committed[a]).data.b0
              slot(j) == SpentClient(committed[a + j - 1]).data.b0
              after == Filter(LiveAfter(a + n - 2), SpentInfo(committed[a]).type, 1)
          IN  /\ \A j \in 1 .. (n - 1) : slot(j) = (last_id + j) % (n - 1)
              /\ \A id \in 0 .. (n - 2) :
                    Cardinality({ j \in 1 .. (n - 1) : slot(j) = id }) = 1
              /\ ValidGroup(after, n)
              /\ InfoOf(after).data.b0 = last_id

\* A group of three has gone through two rotations.
C34_Witness ==
    /\ Len(committed) = 3
    /\ RoundAt(2)
    /\ SizeOf(committed[2]) = 3
    /\ SpentClient(committed[2]).data.b0 # SpentClient(committed[3]).data.b0

(***************************************************************************)
(* C35: after any sequence of committed single-client updates, each        *)
(* assembled by assemble_updates_into_transaction against the ledger as it *)
(* is, at most one live cell carries the type script of a client id.       *)
(***************************************************************************)
C35_OneCellPerClientId ==
    \A client_id \in ClientIds :
       Cardinality({ i \in 1 .. Len(live) :
                       live[i].type = make_lightclient_script(ContractTypeHash, client_id) })
          <= 1

\* The cell of a client id was written, and then replaced by a second update.
C35_Witness ==
    /\ call.op = "upsert"
    /\ draft.tag = "Committed"
    /\ Len(committed) >= 2
    /\ \E c \in Range(committed[Len(committed)].live) :
          /\ c.type = make_lightclient_script(ContractTypeHash, call.client_id)
          /\ c.out_point \in Range(draft.tx.inputs)
    /\ \E c \in Range(live) :
          /\ c.type = make_lightclient_script(ContractTypeHash, call.client_id)
          /\ c.data = call.packed_client

(***************************************************************************)
(* C36: when the sending of, or the wait for, any transaction of the batch *)
(* fails, send_messages_and_wait_commit returns Err and reports no event,  *)
(* not even of the transactions of the batch that were committed; when     *)
(* every transaction succeeds, the event of the i-th submitted transaction *)
(* is reported with the hash of the i-th transaction.                      *)
(***************************************************************************)
\* The call has run up to its last statement, or returned.
BatchSent == sent.tag \in { "Ok", "Clearing", "Err" } /\ sent.msgs # << >>

\* The events the call reports that are not those of event-only messages.
TxEvents == SelectSeq(sent.events, LAMBDA e : e.tx_hash # ZeroHash)

C36_ErrReportsNothingOkKeepsOrder ==
    BatchSent =>
        /\ (\E i \in 1 .. Len(sent.resps) : ~sent.resps[i]) =>
               sent.tag = "Err" /\ sent.events = << >>
        /\ (sent.tag # "Err") =>
               /\ Len(sent.resps) = Len(sent.txs)
               /\ Len(TxEvents) = Len(sent.txs)
               /\ \A i \in 1 .. Len(sent.txs) :
                     /\ TxEvents[i].tx_hash = TxHash(sent.txs[i])
                     /\ TxEvents[i].event = sent.txs[i].kind

\* The first transaction of a batch of two was committed, the second was
\* not, and the call reported nothing.
C36_Witness ==
    /\ BatchSent
    /\ sent.resps = << TRUE, FALSE >>
    /\ sent.consumed # {}
    /\ sent.tag = "Err"

\* Both transactions of a batch of two were committed.
C36_AlignedReached ==
    /\ sent.tag = "Ok"
    /\ Len(sent.txs) = 2
    /\ sent.txs[1] # sent.txs[2]

(***************************************************************************)
(* C37: a message whose draft fails completion is skipped silently by      *)
(* send_messages_and_wait_commit: no transaction is submitted for it, no   *)
(* event is reported for it, the call returns no error because of it, and  *)
(* the other messages of the batch are processed as they are without it.   *)
(***************************************************************************)
\* The messages of the batch whose draft fails completion.
Uncompleted(msgs) == { i \in 1 .. Len(msgs) : ~msgs[i].complete_ok }

\* ... and whose draft was made: the loop reached the message and converted
\* it, with the converter of the call.
DraftMade(msgs) ==
    { i \in Uncompleted(msgs) :
        /\ \A j \in 1 .. i :
              convert_msg_to_ckb_tx(msgs[j], get_converter(Caches, "ok").caches).tag = "Ok"
        /\ convert_msg_to_ckb_tx(msgs[i], get_converter(Caches, "ok").caches).unsigned_tx
              # None }

\* The batch without its i-th message.
Without(msgs, i) == SubSeq(msgs, 1, i - 1) \o SubSeq(msgs, i + 1, Len(msgs))

\* The call ended as r says.
EndedAs(r) ==
    /\ sent'.tag = (IF r.tag = "Ok" THEN "Clearing" ELSE r.tag)
    /\ sent'.txs = r.txs
    /\ sent'.events = r.events
    /\ sent'.resps = r.ledger.resps
    /\ ibc' = r.ledger.ibc

C37_UncompletedDraftIsSkipped ==
    [][(sent = NoSent /\ sent'.tag \in { "Clearing", "Err" }) =>
          \A i \in DraftMade(sent'.msgs) :
             /\ EndedAs(send_messages_and_wait_commit(Caches, Without(sent'.msgs, i),
                                                      "ok", TRUE))
             /\ sent'.tag = "Clearing" =>
                   /\ Len(sent'.txs) = Len(sent'.msgs) - 1
                                       - Cardinality({ j \in 1 .. Len(sent'.msgs) :
                                                          sent'.msgs[j].kind = "event" })
                   /\ Len(sent'.events) = Len(sent'.msgs) - 1]_vars

\* The draft of the first message of a batch of two failed completion; the
\* transaction of the second was committed and its event reported.
C37_Witness ==
    /\ sent.tag = "Ok"
    /\ Len(sent.msgs) = 2
    /\ Uncompleted(sent.msgs) = { 1 }
    /\ sent.resps = << TRUE >>
    /\ Len(sent.events) = 1
    /\ sent.events[1].tx_hash = TxHash(sent.txs[1])

(***************************************************************************)
(* C38: a channel lookup or a connection lookup that fails leaves the      *)
(* caches as they were; a successful channel lookup adds or replaces the   *)
(* entries of the extracted channel and nothing else.                      *)
(***************************************************************************)
ConnectionQueries == { "query_connections", "query_client_connections", "query_connection" }

\* The step is a connection query whose lookup failed.
ConnectionLookupFailed ==
    /\ answer'.op \in ConnectionQueries
    /\ answer'.request.hows[1] # "ok" \/ { x \in ibc : x.kind = "connection" } = {}

\* The step is a query_channel whose lookups all failed / whose last lookup
\* succeeded.
ChannelLookupFailed == answer'.op = "query_channel" /\ answer'.tag # "Ok"

ChannelLookupSucceeded == answer'.op = "query_channel" /\ answer'.tag = "Ok"

\* The maps agree outside the key.
SameBut(m1, m2, key) ==
    /\ DOMAIN m2 = DOMAIN m1 \cup { key }
    /\ \A k \in DOMAIN m1 \ { key } : m2[k] = m1[k]

ChannelEntriesSet ==
    /\ SameBut(channel_input_data, channel_input_data',
               << answer'.value[1].channel_id, answer'.value[1].port_id >>)
    /\ SameBut(channel_cache, channel_cache', answer'.value[1].channel_id)
    /\ channel_cache'[answer'.value[1].channel_id] = answer'.value[1]

\* The connection cache is as it was, or was empty and holds the connection
\* cell of the ledger.
ConnectionKeptOrFilled ==
    \/ connection_cache' = connection_cache
    \/ /\ connection_cache = None
       /\ \E x \in ibc : /\ x.kind = "connection"
                          /\ connection_cache' = Some([connections |-> x.content,
                                                        input |-> x.out_point])

\* C38 as stated: the connection cache is untouched by every channel lookup.
C38_LookupsFrameAllCaches ==
    [][/\ (ConnectionLookupFailed \/ ChannelLookupFailed) =>
             /\ channel_input_data' = channel_input_data
             /\ channel_cache' = channel_cache
             /\ packet_input_data' = packet_input_data
             /\ connection_cache' = connection_cache
       /\ ChannelLookupSucceeded =>
             /\ ChannelEntriesSet
             /\ packet_input_data' = packet_input_data
             /\ connection_cache' = connection_cache]_vars

\* C38 amended: a channel lookup, failed or not, may fill an empty connection
\* cache.
C38_LookupsFrame ==
    [][/\ ConnectionLookupFailed =>
             /\ channel_input_data' = channel_input_data
             /\ channel_cache' = channel_cache
             /\ packet_input_data' = packet_input_data
             /\ connection_cache' = connection_cache
       /\ ChannelLookupFailed =>
             /\ channel_input_data' = channel_input_data
             /\ channel_cache' = channel_cache
             /\ packet_input_data' = packet_input_data
             /\ ConnectionKeptOrFilled
       /\ ChannelLookupSucceeded =>
             /\ ChannelEntriesSet
             /\ packet_input_data' = packet_input_data
             /\ ConnectionKeptOrFilled]_vars

\* A channel lookup failed at the fetch of the transaction, on an endpoint
\* that holds another channel and the connection.
C38_Witness ==
    /\ answer.op = "query_channel"
    /\ answer.tag = "Err"
    /\ \E i \in 1 .. Len(answer.lookups) : answer.request.hows[i + 1] = "err"
    /\ DOMAIN channel_input_data # {}
    /\ connection_cache # None

(***************************************************************************)
(* C39.  The packet lookup narrows the requested sequence to 16 bits.      *)
(***************************************************************************)
\* The sequence the last packet query asked for.
RequestedSequence == answer.request.sequences[1]

\* The live packet cells under the narrowed sequence of the last packet query.
NarrowedPackets ==
    PacketCellsOf(answer.request.channel_id, answer.request.port_id,
                  RequestedSequence % U16Modulus)

\* The last packet query answered from the packet cell x.
AnswersWith(x) ==
    IF x.content # WantedStatus THEN answer.value = Some(<< >>)
    ELSE IF answer.op = "query_packet_acknowledgement"
    THEN answer.value = Some(<< "tx", x.out_point[1] >>)
    ELSE answer.value = Some(PacketSearchArgs(answer.request.channel_id, x.port_id,
                                              x.sequence))

\* C39: the packet lookup narrows the requested 64-bit sequence to 16 bits:
\* when the ledger answers, a packet query for sequence s succeeds exactly
\* when a packet cell of sequence s mod 2^16 is live, and it answers from that
\* cell, so congruent sequences get the same lookup; the query answers from
\* the packet cell of sequence s itself only if s < 65536.
C39_LookupNarrowsSequence ==
    (PacketQueried /\ LedgerAnswers) =>
        /\ (answer.tag = "Ok") <=> (NarrowedPackets # {})
        /\ answer.tag = "Ok" => \E x \in NarrowedPackets : AnswersWith(x)
        /\ (answer.tag = "Ok" /\ \E x \in RequestedPackets : AnswersWith(x))
              => RequestedSequence < U16Modulus

\* A commitment query for sequence 2^16 + 1 is answered with the packet of
\* sequence 1.
C39_Witness ==
    /\ answer.op = "query_packet_commitment"
    /\ LedgerAnswers
    /\ RequestedSequence = U16Modulus + 1
    /\ answer.tag = "Ok"
    /\ answer.value = Some(PacketSearchArgs(0, "transfer", 1))

=============================================================================
